---- MODULE Spec2Model ----
(***************************************************************************)
(* Resilient field resolution and interaction engine of the email agent:   *)
(* EnhancedDOMHandler (enhanced_dom_handler.py) and the retry helpers and  *)
(* sessions of GmailProvider / OutlookProvider (providers/*.py).           *)
(*                                                                         *)
(* The browser page is the environment: every call on it (wait_for_        *)
(* selector, is_visible, evaluate, click, fill, ...) answers with one of   *)
(* the outcomes Playwright can produce, chosen nondeterministically.       *)
(* Text that the code inspects character by character (element attributes, *)
(* keywords, field values) is a sequence of one-character strings;         *)
(* selectors copied verbatim from the tables are strings.                  *)
(***************************************************************************)
EXTENDS Naturals, Integers, Sequences, FiniteSets, TLC

\* ------------------------------------------------------------------ bounds
\* Largest DOM snapshot page.evaluate hands to the heuristic tier.
MaxSnap == 1
\* Largest element list query_selector_all hands to the visual tier.
MaxElems == 2
\* Concurrent execute_instruction calls on the shared agent.
NumTasks == 2

\* ----------------------------------------------------------------- strings
UpperAlphabet == <<"A","B","C","D","E","F","G","H","I","J","K","L","M",
                   "N","O","P","Q","R","S","T","U","V","W","X","Y","Z">>
LowerAlphabet == <<"a","b","c","d","e","f","g","h","i","j","k","l","m",
                   "n","o","p","q","r","s","t","u","v","w","x","y","z">>

\* str.lower() on one character.
LowerChar(c) ==
    IF \E i \in 1..26 : UpperAlphabet[i] = c
    THEN LowerAlphabet[CHOOSE i \in 1..26 : UpperAlphabet[i] = c]
    ELSE c

\* str.lower()
Lower(s) == [i \in 1..Len(s) |-> LowerChar(s[i])]

\* Python's `s in t` on strings.
IsSubstring(s, t) ==
    \E i \in 0..(Len(t) - Len(s)) : SubSeq(t, i + 1, i + Len(s)) = s

\* ' '.join(parts)
RECURSIVE JoinSpace(_)
JoinSpace(parts) ==
    IF Len(parts) = 0 THEN <<>>
    ELSE IF Len(parts) = 1 THEN parts[1]
    ELSE parts[1] \o <<" ">> \o JoinSpace(Tail(parts))

\* JavaScript's className.split(' ').join('.')
DotJoin(s) == [i \in 1..Len(s) |-> IF s[i] = " " THEN "." ELSE s[i]]

\* The value null / None of an attribute the element does not carry.
Null == <<"<null>">>

\* Python truthiness of an attribute value: None and '' are falsy.
Truthy(v) == v # Null /\ v # <<>>

\* ------------------------------------------------------------------ tables
FieldTypes == {"compose", "to", "subject", "body", "send"}
Services == {"gmail", "outlook", "generic"}

\* A table that answers every service with a locator.
selectors_map_any(svc, ft) == << "[aria-label*=\"" \o ft \o "\" i]" >>

\* selectors_map.get(service, {}).get(field_type, [])
selectors_map(svc, ft) ==
    IF svc = "gmail" THEN
        CASE ft = "compose" -> << "div[role=\"button\"][gh=\"cm\"]",
                                  "button[aria-label*=\"Compose\"]",
                                  "div:has-text(\"Compose\")",
                                  ".T-I.T-I-KE.L3" >>
          [] ft = "to"      -> << "input[aria-label*=\"To\"]",
                                  "textarea[name=\"to\"]",
                                  "input[name=\"to\"]",
                                  "div[aria-label*=\"To\"] input" >>
          [] ft = "subject" -> << "input[aria-label*=\"Subject\"]",
                                  "input[name=\"subjectbox\"]",
                                  "input[placeholder*=\"Subject\"]" >>
          [] ft = "body"    -> << "div[aria-label*=\"Message body\"]",
                                  "div[role=\"textbox\"]",
                                  "textarea[aria-label*=\"Message body\"]",
                                  "div[contenteditable=\"true\"]" >>
          [] ft = "send"    -> << "div[role=\"button\"][aria-label*=\"Send\"]",
                                  "button:has-text(\"Send\")",
                                  "div[data-tooltip*=\"Send\"]" >>
          [] OTHER          -> << >>
    ELSE IF svc = "outlook" THEN
        CASE ft = "compose" -> << "button[aria-label*=\"New message\"]",
                                  "button:has-text(\"New message\")",
                                  "div[aria-label*=\"Compose\"]" >>
          [] ft = "to"      -> << "input[aria-label*=\"To\"]",
                                  "div[aria-label*=\"To\"] input",
                                  "input[placeholder*=\"Enter names\"]" >>
          [] ft = "subject" -> << "input[aria-label*=\"Add a subject\"]",
                                  "input[placeholder*=\"Add a subject\"]" >>
          [] ft = "body"    -> << "div[aria-label*=\"Message body\"]",
                                  "div[role=\"textbox\"]",
                                  "div[contenteditable=\"true\"]" >>
          [] ft = "send"    -> << "button[aria-label*=\"Send\"]",
                                  "button:has-text(\"Send\")" >>
          [] OTHER          -> << >>
    ELSE << >>

\* semantic_selectors.get(field_type, [])
semantic_selectors(ft) ==
    CASE ft = "compose" -> << "[role=\"button\"]:has-text(\"Compose\")",
                              "[role=\"button\"]:has-text(\"New\")",
                              "[aria-label*=\"compose\" i]",
                              "[aria-label*=\"new message\" i]" >>
      [] ft = "to"      -> << "input[aria-label*=\"to\" i]",
                              "input[placeholder*=\"to\" i]",
                              "input[name*=\"to\" i]",
                              "[aria-label*=\"recipient\" i] input" >>
      [] ft = "subject" -> << "input[aria-label*=\"subject\" i]",
                              "input[placeholder*=\"subject\" i]",
                              "input[name*=\"subject\" i]" >>
      [] ft = "body"    -> << "[aria-label*=\"message\" i][role=\"textbox\"]",
                              "[aria-label*=\"body\" i]",
                              "div[contenteditable=\"true\"]",
                              "textarea[aria-label*=\"message\" i]" >>
      [] ft = "send"    -> << "[role=\"button\"]:has-text(\"Send\")",
                              "[aria-label*=\"send\" i]",
                              "button:has-text(\"Send\")" >>
      [] OTHER          -> << >>

\* field_keywords.get(field_type, [])
field_keywords(ft) ==
    CASE ft = "compose" -> << <<"c","o","m","p","o","s","e">>,
                              <<"n","e","w">>,
                              <<"w","r","i","t","e">>,
                              <<"c","r","e","a","t","e">> >>
      [] ft = "to"      -> << <<"t","o">>,
                              <<"r","e","c","i","p","i","e","n","t">>,
                              <<"s","e","n","d"," ","t","o">>,
                              <<"e","m","a","i","l"," ","t","o">> >>
      [] ft = "subject" -> << <<"s","u","b","j","e","c","t">>,
                              <<"t","i","t","l","e">>,
                              <<"t","o","p","i","c">> >>
      [] ft = "body"    -> << <<"b","o","d","y">>,
                              <<"m","e","s","s","a","g","e">>,
                              <<"c","o","n","t","e","n","t">>,
                              <<"t","e","x","t">>,
                              <<"c","o","m","p","o","s","e">> >>
      [] ft = "send"    -> << <<"s","e","n","d">>,
                              <<"s","u","b","m","i","t">>,
                              <<"d","e","l","i","v","e","r">> >>
      [] OTHER          -> << >>

\* visual_patterns.get(field_type, []); each pattern carries its own quotes.
visual_patterns(ft) ==
    CASE ft = "compose" -> << "\"Compose\"", "\"New message\"", "\"Write\"" >>
      [] ft = "to"      -> << "\"To:\"", "\"Recipients\"", "\"Send to\"" >>
      [] ft = "subject" -> << "\"Subject:\"", "\"Subject\"" >>
      [] ft = "body"    -> << "\"Message\"", "\"Type your message\"" >>
      [] ft = "send"    -> << "\"Send\"", "\"Send message\"" >>
      [] OTHER          -> << >>

\* auth_indicators.get(service, auth_indicators['gmail'])
auth_indicators(svc) ==
    IF svc = "outlook"
    THEN << "input[type=\"email\"]", "input[type=\"password\"]",
            "div:has-text(\"Sign in\")", "button:has-text(\"Sign in\")" >>
    ELSE << "input[type=\"email\"]", "input[type=\"password\"]",
            "div:has-text(\"Sign in\")", "div:has-text(\"Choose an account\")" >>

\* ------------------------------------------------------------- descriptors
TagInput == <<"i","n","p","u","t">>
TagTextarea == <<"t","e","x","t","a","r","e","a">>
TagDiv == <<"d","i","v">>
TagButton == <<"b","u","t","t","o","n">>
RoleButton == <<"b","u","t","t","o","n">>
RoleTextbox == <<"t","e","x","t","b","o","x">>

\* getElementInfo(el): what the in-page probe reports of one element.
\* getAttribute yields null for an attribute the element does not carry;
\* id, className and textContent are strings, '' when unset.
Descriptor(tag, id, classes, ariaLabel, placeholder, text, role) ==
    [tag |-> tag, id |-> id, classes |-> classes, ariaLabel |-> ariaLabel,
     placeholder |-> placeholder, text |-> text, role |-> role]

\* The elements a page of the model may hold.
\* 1: <button role="button">New</button>, nothing else set.
\* 2: the same button with empty aria-label and placeholder attributes.
\* 3: <input id="to-field" aria-label="To" placeholder="">.
\* 4: <input aria-label="Add a subject" placeholder="Subject" class="btn primary">.
\* 5: <div contenteditable role="textbox" aria-label="Message body" placeholder="">.
\* 6: <button aria-label="Compose" placeholder="">Compose</button>, no role.
\* 7: <div role="button" aria-label="Send" placeholder="">Send</div>.
\* 8: <input aria-label="Subject" placeholder="">.
\* 9: <input aria-label="" placeholder="">, no id and no role.
Catalogue ==
    << Descriptor(TagButton, <<>>, <<>>, Null, Null, <<"N","e","w">>, RoleButton),
       Descriptor(TagButton, <<>>, <<>>, <<>>, <<>>, <<"N","e","w">>, RoleButton),
       Descriptor(TagInput, <<"t","o","-","f","i","e","l","d">>, <<>>,
                  <<"T","o">>, <<>>, <<>>, Null),
       Descriptor(TagInput, <<>>, <<"b","t","n"," ","p","r","i","m","a","r","y">>,
                  <<"A","d","d"," ","a"," ","s","u","b","j","e","c","t">>,
                  <<"S","u","b","j","e","c","t">>, <<>>, Null),
       Descriptor(TagDiv, <<>>, <<>>,
                  <<"M","e","s","s","a","g","e"," ","b","o","d","y">>, <<>>,
                  <<>>, RoleTextbox),
       Descriptor(TagButton, <<>>, <<>>, <<"C","o","m","p","o","s","e">>, <<>>,
                  <<"C","o","m","p","o","s","e">>, Null),
       Descriptor(TagDiv, <<>>, <<>>, <<"S","e","n","d">>, <<>>,
                  <<"S","e","n","d">>, RoleButton),
       Descriptor(TagInput, <<>>, <<>>, <<"S","u","b","j","e","c","t">>, <<>>,
                  <<>>, Null),
       Descriptor(TagInput, <<>>, <<>>, <<>>, <<>>, <<>>, Null) >>

Descriptors == {Catalogue[i] : i \in DOMAIN Catalogue}

\* Pages with more matched elements than MaxSnap: a form of five inputs, two
\* of them twice; buttons and a body in an order no role ranks them in; an
\* element with a null attribute behind one without.
Pages ==
    { <<Catalogue[3], Catalogue[4], Catalogue[8], Catalogue[3], Catalogue[8]>>,
      <<Catalogue[6], Catalogue[7], Catalogue[2], Catalogue[5]>>,
      <<Catalogue[2], Catalogue[1]>> }

\* Every snapshot page.evaluate may return: the matched elements in document order.
Snapshots == UNION {[1..n -> Descriptors] : n \in 0..MaxSnap} \cup Pages

\* ----------------------------------------------------- heuristic scoring
\* candidates[:3]
TopCandidates == 3

\* text_attrs: element.get(...) of the five text attributes, in this order.
TextAttrs(el) == <<el.ariaLabel, el.placeholder, el.text, el.id, el.classes>>

\* ' '.join(text_attrs) raises TypeError when an item is None.
JoinRaises(el) == \E i \in 1..5 : TextAttrs(el)[i] = Null

\* all_text = ' '.join(text_attrs).lower()
AllText(el) == Lower(JoinSpace(TextAttrs(el)))

\* for keyword in keywords: if keyword in all_text: score += 1
KeywordScore(el, ft) ==
    LET all_text == AllText(el)
    IN  Cardinality({k \in DOMAIN field_keywords(ft) :
                        IsSubstring(field_keywords(ft)[k], all_text)})

\* Type-specific scoring.
TypeBonus(el, ft) ==
    IF ft \in {"to", "subject"} /\ el.tag = TagInput THEN 2
    ELSE IF ft = "body" /\ el.tag \in {TagTextarea, TagDiv} THEN 2
    ELSE IF ft \in {"compose", "send"} /\ el.role = RoleButton THEN 2
    ELSE 0

Score(el, ft) == KeywordScore(el, ft) + TypeBonus(el, ft)

\* element['ai_score'] = score, for the elements with score > 0.
Scored(dom, ft) ==
    [i \in 1..Len(dom) |->
        IF Score(dom[i], ft) > 0
        THEN ("ai_score" :> Score(dom[i], ft)) @@ dom[i]
        ELSE dom[i]]

HasScore(el) == "ai_score" \in DOMAIN el

\* SortByScore with equal scores in reverse scan order.
RECURSIVE SortByScoreTiesLast(_)
SortByScoreTiesLast(c) ==
    IF Len(c) = 0 THEN <<>>
    ELSE LET best == CHOOSE i \in 1..Len(c) :
                        /\ \A j \in 1..Len(c) : c[j].ai_score <= c[i].ai_score
                        /\ \A j \in (i + 1)..Len(c) : c[j].ai_score < c[i].ai_score
             rest == [j \in 1..(Len(c) - 1) |-> IF j < best THEN c[j] ELSE c[j + 1]]
         IN  <<c[best]>> \o SortByScoreTiesLast(rest)

\* list.sort(key=ai_score, reverse=True): stable, equal scores keep their order.
RECURSIVE SortByScore(_)
SortByScore(c) ==
    IF Len(c) = 0 THEN <<>>
    ELSE LET best == CHOOSE i \in 1..Len(c) :
                        /\ \A j \in 1..Len(c) : c[j].ai_score <= c[i].ai_score
                        /\ \A j \in 1..(i - 1) : c[j].ai_score < c[i].ai_score
             rest == [j \in 1..(Len(c) - 1) |-> IF j < best THEN c[j] ELSE c[j + 1]]
         IN  <<c[best]>> \o SortByScore(rest)

\* ai_field_matching without the cut to the first three.
ai_field_matching_uncut(dom, ft) ==
    SortByScore(SelectSeq(Scored(dom, ft), HasScore))

\* _ai_field_matching, on a batch for which the join does not raise.
ai_field_matching(dom, ft) ==
    LET sorted == SortByScore(SelectSeq(Scored(dom, ft), HasScore))
    IN  SubSeq(sorted, 1, IF Len(sorted) < TopCandidates THEN Len(sorted)
                          ELSE TopCandidates)

\* _ai_field_matching raises (TypeError) on the first element with a None attribute.
MatchingRaises(dom) == \E i \in 1..Len(dom) : JoinRaises(dom[i])

\* --------------------------------------------------------------- selectors
\* A selector: a table entry (s) or text synthesised from attributes (a).
TableSelector(s) == [s |-> s, a |-> <<>>]
MadeSelector(a) == [s |-> "", a |-> a]
NoSelector == [s |-> "", a |-> <<>>]

\* The locators _generate_selector_from_candidate probes, in order.
CandidateSelectors(c) ==
    (IF Truthy(c.id) THEN <<MadeSelector(<<"#">> \o c.id)>> ELSE <<>>)
 \o (IF Truthy(c.ariaLabel)
     THEN <<MadeSelector(<<"[","a","r","i","a","-","l","a","b","e","l","=","\"">>
                         \o c.ariaLabel \o <<"\"","]">>)>>
     ELSE <<>>)
 \o (IF Truthy(c.placeholder)
     THEN <<MadeSelector(<<"[","p","l","a","c","e","h","o","l","d","e","r","=","\"">>
                         \o c.placeholder \o <<"\"","]">>)>>
     ELSE <<>>)
 \o (IF Truthy(c.role)
     THEN <<MadeSelector(c.tag \o <<"[","r","o","l","e","=","\"">>
                         \o c.role \o <<"\"","]">>)>>
     ELSE <<>>)

\* The in-page function of _get_element_selector.
get_element_selector(el) ==
    IF Truthy(el.id) THEN MadeSelector(<<"#">> \o el.id)
    ELSE IF Truthy(el.ariaLabel)
    THEN MadeSelector(<<"[","a","r","i","a","-","l","a","b","e","l","=","\"">>
                      \o el.ariaLabel \o <<"\"","]">>)
    ELSE IF Truthy(el.placeholder)
    THEN MadeSelector(<<"[","p","l","a","c","e","h","o","l","d","e","r","=","\"">>
                      \o el.placeholder \o <<"\"","]">>)
    ELSE IF Truthy(el.classes) THEN MadeSelector(<<".">> \o DotJoin(el.classes))
    ELSE MadeSelector(el.tag)

\* ------------------------------------------------------------------- state
VARIABLES
    entry,          \* the operation a run exercises: find, gate, click, fill, session
    pc,             \* the statement about to execute
    ret,            \* where the running helper returns to
    log,            \* StepLogger.steps: the lines logged since the operation in progress began
    issued,         \* the kinds of write the page has been asked to perform
    faultSeen,      \* some page call raised an error other than a timeout
    findCalls,      \* the field types find_email_field has been called for
    service,        \* argument service
    field_type,     \* argument field_type
    idx,            \* position in the selector / pattern list being walked
    invoked,        \* the strategies find_email_field has called, in call order
    failedTiers,    \* the strategies that returned None in this call
    findResult,     \* what find_email_field returned
    dom_structure,  \* the snapshot under analysis
    candidates,     \* field_candidates
    cidx,           \* position in field_candidates
    sidx,           \* position in the candidate's selector list
    genSel,         \* the selector _generate_selector_from_candidate returned
    elemsLeft,      \* elements of the current pattern not yet inspected
    sawNewButton,   \* the snapshot of this call held the bare button with text New
    observed,       \* the selectors whose element this call found present and visible
    resolved,       \* the ranks of the candidates a locator of which this call found live
    swallowed,      \* the positions of the visual patterns whose probing raised in this call
    gidx,           \* position in the indicator list
    gateSeen,       \* an indicator was found visible
    gateResult,     \* what handle_authentication_challenge returned
    provider,       \* gmail or outlook: whose helper or session runs
    selector,       \* argument selector of the retry helpers
    max_retries,    \* argument max_retries
    attempt,        \* loop iterations begun
    retryResult,    \* what the retry helper returned, or "raised"
    element,        \* the attempt whose wait_for_selector gave the handle in `element`, 0 for none
    lastUse,        \* the handle last clicked, written or read, and the attempt that used it
    visibleAt,      \* the attempt in which is_visible() last answered true, 0 before
    value,          \* argument value of _fill_field_with_retry
    kind,           \* the element is an input or a contenteditable node
    content,        \* the text the element holds
    content0,       \* the text it held when the call began
    midx,           \* position in methods
    tried,          \* the write methods called, in call order
    filled_value,   \* filled_value of the last method iteration, Null when none was read
    unverified,     \* the methods of this attempt whose read-back failed the check
    deviated,       \* the page answered other than a faithful, fault-free page would
    surface,        \* what the page answered to a fill call made on its own, per attempt
    sessResult,     \* what send_email returned
    browser,        \* self.browser: none, open, closed
    cleanups,       \* completed runs of _cleanup
    setbacks,       \* the fields of the message not found or not filled so far
    tpc,            \* per concurrent task: the await its send_email is suspended at
    awaiting,       \* per task: the browser the call it awaits runs in, 0 for none
    selfBrowser,    \* self.browser of the shared provider: the task that launched it
    selfPage,       \* self.page of the shared provider: the task that opened it
    handlerPage,    \* self.dom_handler.page of the shared provider
    touched,        \* per task: the tasks whose browser or page it operated on
    closedBrowsers, \* the browsers closed, by the task that launched them
    apc,            \* where the API server stands in serving a request
    agent_instance, \* _agent_instance of api_server: "none" or "made"
    steps,          \* StepLogger.steps of the agent: <<request, line>> pairs
    request,        \* the request being served: its number, provider, async_mode
    selected_providers, \* execute_instruction: the providers selected
    pidx,           \* execute_instruction: the position in selected_providers
    success,        \* execute_instruction: its local `success`
    ran,            \* the <<provider, outcome>> of the send_email calls of this request
    execResult,     \* what execute_instruction returned for this request
    timedOut,       \* asyncio.wait_for gave up on this request
    response        \* the response the client received last

retryVars == <<provider, selector, max_retries, attempt, retryResult, element,
               lastUse, visibleAt>>
fillVars == <<value, kind, content, content0, midx, tried, filled_value,
              unverified, deviated, surface>>
sessVars == <<sessResult, browser, cleanups, setbacks>>
gateVars == <<gidx, gateSeen, gateResult>>
findLocals == <<idx, dom_structure, candidates, cidx, sidx, genSel, elemsLeft>>
findSeen == <<sawNewButton, observed, resolved, swallowed>>
findVars == <<service, field_type, invoked, failedTiers, findResult, findLocals,
              findSeen>>
batchVars == <<tpc, awaiting, selfBrowser, selfPage, handlerPage, touched,
              closedBrowsers>>
apiVars == <<apc, agent_instance, steps, request, selected_providers, pidx,
            success, ran, execResult, timedOut, response>>
vars == <<entry, pc, ret, log, issued, faultSeen, findCalls,
          findVars, gateVars, retryVars, fillVars, sessVars, batchVars, apiVars>>

\* What one wait_for_selector followed by is_visible can answer:
\* the element visible; the element not visible; None; a TimeoutError;
\* another error (the page, context or browser is gone).
ProbeOutcomes == {"visible", "hidden", "none", "timeout", "fault"}

\* An element taken as usable as soon as it is present.
ElementUsableLive(o) == o \in {"visible", "hidden"}

\* `if element and await element.is_visible()`
ElementUsable(o) == o = "visible"

\* The selectors observed present and visible once a probe of sel answered o.
Observe(o, sel) == IF o = "visible" THEN observed \cup {sel} ELSE observed

\* The snapshot holds <button role="button">New</button> with no other
\* attribute: getAttribute answers null for aria-label and placeholder.
HoldsNewButton(dom) == \E i \in 1..Len(dom) : dom[i] = Catalogue[1]

FindSeenReset == sawNewButton' = FALSE /\ observed' = {} /\ resolved' = {} /\ swallowed' = {}

\* Where an exception leaving a helper lands: the except clause of
\* send_email in a session, the caller of the helper otherwise.
RaiseTo == IF entry = "session" THEN "send_email_except" ELSE "done"

\* ------------------------------------------------------- find_email_field
\* TierOrder with the scorer consulted before the curated selectors.
TierOrderScorerFirst ==
    <<"ai_dom_analysis", "service_specific", "semantic", "visual">>

\* The strategies in the order find_email_field calls them.
TierOrder == <<"service_specific", "semantic", "ai_dom_analysis", "visual">>

\* TierAfter with the fall-through to the last strategy lost.
TierAfterSkipsLast(t) ==
    LET i == CHOOSE k \in 1..Len(TierOrder) : TierOrder[k] = t
    IN  IF i >= Len(TierOrder) - 1 THEN "end" ELSE TierOrder[i + 1]

\* The strategy find_email_field calls after strategy t returned None.
TierAfter(t) ==
    LET i == CHOOSE k \in 1..Len(TierOrder) : TierOrder[k] = t
    IN  IF i = Len(TierOrder) THEN "end" ELSE TierOrder[i + 1]

\* The line a strategy logs when it starts.
TierStartLog(t) ==
    IF t = "ai_dom_analysis" THEN <<"Trying AI DOM analysis">>
    ELSE IF t = "visual" THEN <<"Trying visual detection">>
    ELSE <<>>

Pending == [status |-> "pending", tier |-> "none", selector |-> NoSelector]

FindLocalsAre(i, dom, cands, ci, si, gs, el) ==
    /\ idx' = i
    /\ dom_structure' = dom
    /\ candidates' = cands
    /\ cidx' = ci
    /\ sidx' = si
    /\ genSel' = gs
    /\ elemsLeft' = el

FindLocalsReset == FindLocalsAre(1, <<>>, <<>>, 1, 1, NoSelector, 0)

\* What find_email_field leaves alone.
FindFrame ==
    UNCHANGED <<apiVars, batchVars, entry, ret, issued, findCalls, service, field_type,
                gateVars, retryVars, fillVars, sessVars>>

\* Strategy `from` returned None after logging `lines`: find_email_field
\* calls the next strategy, or logs and returns None after the last.
Advance(from, lines) ==
    LET nxt == TierAfter(from)
    IN  /\ failedTiers' = failedTiers \cup {from}
        /\ FindLocalsReset
        /\ IF nxt = "end"
           THEN /\ log' = log \o lines \o <<"Could not find field after all strategies">>
                /\ findResult' = [status |-> "None", tier |-> "none",
                                  selector |-> NoSelector]
                /\ invoked' = invoked
                /\ pc' = ret
           ELSE /\ log' = log \o lines \o TierStartLog(nxt)
                /\ findResult' = findResult
                /\ invoked' = Append(invoked, nxt)
                /\ pc' = nxt

\* Strategy `tier` returned `sel` after logging `lines`: find_email_field returns it.
ReturnSelector(tier, sel, lines) ==
    /\ log' = log \o lines
    /\ findResult' = [status |-> "found", tier |-> tier, selector |-> sel]
    /\ UNCHANGED <<invoked, failedTiers>>
    /\ FindLocalsReset
    /\ pc' = ret

\* find_email_field up to its first strategy call.
FindBegin ==
    /\ pc = "find_email_field"
    /\ log' = Append(log, "Looking for field") \o TierStartLog(TierOrder[1])
    /\ findCalls' = findCalls \cup {field_type}
    /\ invoked' = <<TierOrder[1]>>
    /\ pc' = TierOrder[1]
    /\ UNCHANGED <<failedTiers, findResult, findLocals, findSeen, faultSeen>>
    /\ UNCHANGED <<apiVars, batchVars, entry, ret, issued, service, field_type,
                   gateVars, retryVars, fillVars, sessVars>>

\* One iteration of the selector loop shared in shape by
\* _try_service_specific_selectors and _try_semantic_selectors.
TableProbe(tier, selectors, foundLine) ==
    /\ pc = tier
    /\ FindFrame
    /\ UNCHANGED <<sawNewButton, resolved, swallowed>>
    /\ IF idx > Len(selectors)
       THEN Advance(tier, <<>>) /\ UNCHANGED <<faultSeen, observed>>
       ELSE \E o \in ProbeOutcomes :
              /\ faultSeen' = (faultSeen \/ o = "fault")
              /\ observed' = Observe(o, TableSelector(selectors[idx]))
              /\ IF ElementUsable(o)
                 THEN ReturnSelector(tier, TableSelector(selectors[idx]), <<foundLine>>)
                 ELSE /\ idx' = idx + 1
                      /\ UNCHANGED <<pc, log, invoked, failedTiers, findResult,
                                     dom_structure, candidates, cidx, sidx,
                                     genSel, elemsLeft>>

try_service_specific_selectors ==
    TableProbe("service_specific", selectors_map(service, field_type),
               "Found with service-specific selector")

try_semantic_selectors ==
    TableProbe("semantic", semantic_selectors(field_type),
               "Found with semantic selector")

\* page.evaluate raised: the except clause of _try_ai_dom_analysis logs and
\* the strategy returns None.
AiEvaluateRaises ==
    /\ pc = "ai_dom_analysis"
    /\ FindFrame
    /\ faultSeen' = TRUE
    /\ UNCHANGED findSeen
    /\ Advance("ai_dom_analysis", <<"AI DOM analysis failed">>)

\* page.evaluate returned a snapshot and _ai_field_matching ran on it.
AiEvaluate ==
    /\ pc = "ai_dom_analysis"
    /\ FindFrame
    /\ UNCHANGED <<faultSeen, observed, resolved, swallowed>>
    /\ \E dom \in Snapshots :
         /\ sawNewButton' = HoldsNewButton(dom)
         /\ IF MatchingRaises(dom)
            THEN Advance("ai_dom_analysis", <<"AI DOM analysis failed">>)
            ELSE LET found == ai_field_matching(dom, field_type)
                 IN  IF Len(found) = 0
                     THEN Advance("ai_dom_analysis", <<>>)
                     ELSE /\ FindLocalsAre(1, Scored(dom, field_type), found,
                                           1, 1, NoSelector, 0)
                          /\ pc' = "ai_generate"
                          /\ UNCHANGED <<log, invoked, failedTiers, findResult>>

\* The candidate loop left at the first candidate that does not resolve.
NextCandidateGivesUp == Advance("ai_dom_analysis", <<>>)

\* `continue` in the candidate loop: the next candidate, or the end of the strategy.
NextCandidate ==
    IF cidx + 1 > Len(candidates)
    THEN Advance("ai_dom_analysis", <<>>)
    ELSE /\ FindLocalsAre(1, dom_structure, candidates, cidx + 1, 1, NoSelector, 0)
         /\ pc' = "ai_generate"
         /\ UNCHANGED <<log, invoked, failedTiers, findResult>>

\* What one wait_for_selector alone can answer.
WaitOutcomes == {"element", "none", "timeout", "fault"}

\* One iteration of the loop of _generate_selector_from_candidate.
generate_selector_from_candidate ==
    /\ pc = "ai_generate"
    /\ FindFrame
    /\ UNCHANGED <<sawNewButton, observed, swallowed>>
    /\ LET sels == CandidateSelectors(candidates[cidx])
       IN  IF sidx > Len(sels)
           THEN NextCandidate /\ UNCHANGED <<faultSeen, resolved>>
           ELSE \E o \in WaitOutcomes :
                  /\ faultSeen' = (faultSeen \/ o = "fault")
                  /\ resolved' = IF o = "element" THEN resolved \cup {cidx}
                                 ELSE resolved
                  /\ UNCHANGED <<log, invoked, failedTiers, findResult>>
                  /\ IF o = "element"
                     THEN /\ FindLocalsAre(1, dom_structure, candidates, cidx,
                                           sidx, sels[sidx], 0)
                          /\ pc' = "ai_wait"
                     ELSE /\ FindLocalsAre(1, dom_structure, candidates, cidx,
                                           sidx + 1, NoSelector, 0)
                          /\ pc' = pc

\* The probe of the generated selector in _try_ai_dom_analysis.
AiWait ==
    /\ pc = "ai_wait"
    /\ FindFrame
    /\ UNCHANGED <<sawNewButton, resolved, swallowed>>
    /\ \E o \in ProbeOutcomes :
         /\ faultSeen' = (faultSeen \/ o = "fault")
         /\ observed' = Observe(o, genSel)
         /\ IF ElementUsable(o)
            THEN ReturnSelector("ai_dom_analysis", genSel, <<"Found with AI analysis">>)
            ELSE NextCandidate

\* The elements query_selector('input, textarea, div[contenteditable]') may find
\* under a matched element: an input with an id; an input with a placeholder
\* only; an input with classes only; a bare textarea.
NestedCatalogue ==
    { Descriptor(TagInput, <<"t","o","-","f","i","e","l","d">>, <<>>,
                 <<"T","o">>, Null, <<>>, Null),
      Descriptor(TagInput, <<>>, <<>>, Null, <<"S","u","b","j","e","c","t">>,
                 <<>>, Null),
      Descriptor(TagInput, <<>>, <<"b","t","n"," ","p","r","i","m","a","r","y">>,
                 Null, Null, <<>>, Null),
      Descriptor(TagTextarea, <<>>, <<>>, Null, Null, <<>>, Null) }

\* selector = f':has-text({pattern})'
VisualSelector(pattern) == TableSelector(":has-text(" \o pattern \o ")")

\* The pattern loop left at the first pattern without a result.
NextPatternGivesUp == Advance("visual", <<>>)

\* `continue` of the pattern loop of _try_visual_detection.
NextPattern ==
    /\ FindLocalsAre(idx + 1, <<>>, <<>>, 1, 1, NoSelector, 0)
    /\ pc' = "visual"
    /\ UNCHANGED <<log, invoked, failedTiers, findResult>>

\* The next element of the list query_selector_all returned.
NextElement ==
    /\ FindLocalsAre(idx, <<>>, <<>>, 1, 1, NoSelector, elemsLeft - 1)
    /\ pc' = "visual_elements"
    /\ UNCHANGED <<log, invoked, failedTiers, findResult>>

\* query_selector_all raised: the except clause continues with the next pattern.
VisualQueryRaises ==
    /\ pc = "visual"
    /\ idx <= Len(visual_patterns(field_type))
    /\ FindFrame
    /\ UNCHANGED <<sawNewButton, observed, resolved>>
    /\ swallowed' = swallowed \cup {idx}
    /\ faultSeen' = TRUE
    /\ NextPattern

\* The pattern loop of _try_visual_detection up to the element list.
VisualQuery ==
    /\ pc = "visual"
    /\ FindFrame
    /\ UNCHANGED <<faultSeen, findSeen>>
    /\ IF idx > Len(visual_patterns(field_type))
       THEN Advance("visual", <<>>)
       ELSE \E n \in 0..MaxElems :
              /\ FindLocalsAre(idx, <<>>, <<>>, 1, 1, NoSelector, n)
              /\ pc' = "visual_elements"
              /\ UNCHANGED <<log, invoked, failedTiers, findResult>>

\* One iteration of the element loop of _try_visual_detection.
\* o: the answer of is_visible; nest: the answer of element.query_selector;
\* sel: whether the evaluate of _get_element_selector returned.
VisualElement ==
    /\ pc = "visual_elements"
    /\ FindFrame
    /\ UNCHANGED <<sawNewButton, resolved>>
    /\ IF elemsLeft = 0
       THEN NextPattern /\ UNCHANGED <<faultSeen, observed, swallowed>>
       ELSE \E o \in {"visible", "hidden", "raise"},
               nest \in {"found", "none", "raise"},
               d \in NestedCatalogue,
               sel \in {"returned", "raise"} :
              LET buttonLike == field_type \in {"compose", "send"}
                  raised == \/ o = "raise"
                            \/ o = "visible" /\ ~buttonLike /\ nest = "raise"
                  selRaised == o = "visible" /\ ~buttonLike /\ nest = "found"
                               /\ sel = "raise"
              IN  /\ faultSeen' = (faultSeen \/ raised \/ selRaised)
                  /\ swallowed' = IF raised THEN swallowed \cup {idx} ELSE swallowed
                  /\ observed' = Observe(o, VisualSelector(visual_patterns(field_type)[idx]))
                  /\ IF raised THEN NextPattern
                     ELSE IF o = "hidden" THEN NextElement
                     ELSE IF buttonLike
                     THEN ReturnSelector("visual",
                                         VisualSelector(visual_patterns(field_type)[idx]),
                                         <<"Found with visual pattern">>)
                     ELSE IF nest = "none" \/ selRaised THEN NextElement
                     ELSE ReturnSelector("visual", get_element_selector(d),
                                         <<"Found near visual pattern">>)

\* The call find_email_field(ft, svc), returning to `back`.
CallFind(ft, svc, back) ==
    /\ field_type' = ft
    /\ service' = svc
    /\ invoked' = <<>>
    /\ failedTiers' = {}
    /\ findResult' = Pending
    /\ FindLocalsReset
    /\ FindSeenReset
    /\ log' = <<>>
    /\ ret' = back
    /\ pc' = "find_email_field"

\* ---------------------------------------- handle_authentication_challenge
GateFrame ==
    UNCHANGED <<apiVars, batchVars, entry, ret, issued, findCalls, findVars, retryVars, fillVars,
                sessVars>>

\* One iteration of the indicator loop, up to the call of _handle_auth_gracefully.
GateProbe ==
    /\ pc = "gate"
    /\ gidx <= Len(auth_indicators(service))
    /\ GateFrame
    /\ UNCHANGED gateResult
    /\ \E o \in ProbeOutcomes :
         /\ faultSeen' = (faultSeen \/ o = "fault")
         /\ IF ElementUsable(o)
            THEN /\ log' = Append(log, "Authentication required: Found indicator")
                 /\ gateSeen' = TRUE
                 /\ gidx' = gidx
                 /\ pc' = "handle_auth_gracefully"
            ELSE /\ gidx' = gidx + 1
                 /\ UNCHANGED <<log, gateSeen, pc>>

\* The lines _handle_auth_gracefully logs before it waits.
GraceLines ==
    << "Authentication required - entering safe mode",
       "In production, this would:",
       "Redirect to OAuth flow", "Use stored tokens",
       "Prompt for manual login", "Fall back to API methods" >>

\* handle_auth_gracefully filling the sign-in form during the grace period.
handle_auth_gracefully_filling ==
    /\ pc = "handle_auth_gracefully"
    /\ UNCHANGED <<apiVars, batchVars, entry, ret, findCalls, findVars, retryVars, fillVars, sessVars>>
    /\ UNCHANGED <<gateSeen, gidx, faultSeen>>
    /\ issued' = issued \cup {"fill"}
    /\ log' = log \o GraceLines \o <<"Authentication simulation complete">>
    /\ gateResult' = "False"
    /\ pc' = ret

\* _handle_auth_gracefully and what follows it in the loop body: `return False`
\* when the wait returned; the bare except and `continue` when it raised.
handle_auth_gracefully ==
    /\ pc = "handle_auth_gracefully"
    /\ GateFrame
    /\ UNCHANGED gateSeen
    /\ \E waited \in BOOLEAN :
         IF waited
         THEN /\ log' = log \o GraceLines \o <<"Authentication simulation complete">>
              /\ gateResult' = "False"
              /\ pc' = ret
              /\ UNCHANGED <<gidx, faultSeen>>
         ELSE /\ log' = log \o GraceLines
              /\ faultSeen' = TRUE
              /\ gidx' = gidx + 1
              /\ pc' = "gate"
              /\ UNCHANGED gateResult

\* The loop ended without a return.
GateAuthenticated ==
    /\ pc = "gate"
    /\ gidx > Len(auth_indicators(service))
    /\ GateFrame
    /\ log' = Append(log, "Already authenticated or in main interface")
    /\ gateResult' = "True"
    /\ pc' = ret
    /\ UNCHANGED <<gidx, gateSeen, faultSeen>>

\* The call handle_authentication_challenge(svc), returning to `back`.
CallGate(svc, back) ==
    /\ service' = svc
    /\ gidx' = 1
    /\ gateSeen' = FALSE
    /\ gateResult' = "pending"
    /\ log' = <<"Checking authentication state">>
    /\ ret' = back
    /\ pc' = "gate"

\* ------------------------------------------------------- the retry helpers
\* max_retries: int = 3
DefaultMaxRetries == 3

\* MoreAttempts with the loop bound lost.
MoreAttemptsForever(made, limit) == made >= 0

\* MoreAttempts with the loop bound off by one.
MoreAttemptsOffByOne(made, limit) == made <= limit

\* `for attempt in range(max_retries)`: another iteration is due.
MoreAttempts(made, limit) == made < limit

\* No wait between attempts.
BackoffNever(made, limit) == FALSE

\* `if attempt < max_retries - 1` in the except clause; `made` counts the
\* iterations begun, so the current one has index made - 1.
BackoffDue(made, limit) == made - 1 < limit - 1

\* Acquired with the handle of the first attempt kept for the later ones.
AcquiredOnce(made, held, o) ==
    IF held # 0 THEN held
    ELSE IF o \in {"timeout", "fault"} THEN held
    ELSE IF o = "none" THEN 0
    ELSE made

\* `element = await self.page.wait_for_selector(selector, ...)` in attempt
\* `made`: the handle of this attempt, None, or no assignment when it raised.
Acquired(made, held, o) ==
    IF o \in {"timeout", "fault"} THEN held
    ELSE IF o = "none" THEN 0
    ELSE made

NoUse == <<0, 0>>

\* The call of a retry helper of provider p on sel, returning to `back`.
CallRetry(p, sel, limit, back, start) ==
    /\ provider' = p
    /\ selector' = sel
    /\ max_retries' = limit
    /\ attempt' = 0
    /\ retryResult' = "pending"
    /\ element' = 0
    /\ lastUse' = NoUse
    /\ visibleAt' = 0
    /\ log' = <<>>
    /\ ret' = back
    /\ pc' = start

\* ----------------------------------------- GmailProvider._click_with_retry
ClickFrame ==
    UNCHANGED <<apiVars, batchVars, entry, ret, findCalls, findVars, gateVars, fillVars, sessVars,
                provider, selector, max_retries>>

\* One iteration of the loop, up to the end of the try statement.
\* o: the answer of wait_for_selector and is_visible; clk: the answer of click.
click_attempt ==
    /\ pc = "click"
    /\ MoreAttempts(attempt, max_retries)
    /\ ClickFrame
    /\ attempt' = attempt + 1
    /\ \E o \in ProbeOutcomes, clk \in {"clicked", "timeout", "fault"} :
         LET reached == ElementUsable(o)
             raised == o \in {"timeout", "fault"} \/ (reached /\ clk # "clicked")
             handle == Acquired(attempt + 1, element, o)
         IN  /\ faultSeen' = (faultSeen \/ o = "fault" \/ (reached /\ clk = "fault"))
             /\ issued' = IF reached THEN issued \cup {"click"} ELSE issued
             /\ element' = handle
             /\ lastUse' = IF reached THEN <<handle, attempt + 1>> ELSE lastUse
             /\ visibleAt' = IF reached THEN attempt + 1 ELSE visibleAt
             /\ IF reached /\ clk = "clicked"
                THEN /\ log' = log \o <<"Clicking", "Successfully clicked">>
                     /\ retryResult' = "True"
                     /\ pc' = ret
                ELSE IF raised
                THEN /\ log' = log \o <<"Clicking", "Attempt failed">>
                     /\ retryResult' = retryResult
                     /\ pc' = IF BackoffDue(attempt + 1, max_retries)
                              THEN "click_backoff" ELSE "click"
                ELSE /\ log' = log \o <<"Clicking", "not visible">>
                     /\ retryResult' = retryResult
                     /\ pc' = "click"

\* `await self.page.wait_for_timeout(1000)` in the except clause: it returns,
\* or raises and the exception leaves _click_with_retry.
click_backoff ==
    /\ pc = "click_backoff"
    /\ ClickFrame
    /\ UNCHANGED <<log, issued, attempt, element, lastUse, visibleAt>>
    /\ \E waited \in BOOLEAN :
         IF waited
         THEN /\ pc' = "click"
              /\ UNCHANGED <<retryResult, faultSeen>>
         ELSE /\ pc' = RaiseTo
              /\ retryResult' = "raised"
              /\ faultSeen' = TRUE

\* The statements after the loop.
click_exhausted ==
    /\ pc = "click"
    /\ ~MoreAttempts(attempt, max_retries)
    /\ ClickFrame
    /\ log' = Append(log, "Failed to click after max_retries attempts")
    /\ retryResult' = "False"
    /\ pc' = ret
    /\ UNCHANGED <<issued, attempt, faultSeen, element, lastUse, visibleAt>>

\* ------------------------------------------------- _fill_field_with_retry
\* The texts a field value or a field may be.
Values == { <<>>, <<"a">>, <<"a","b">> }
Contents == Values \cup { <<"b">> }
\* What input_value may return when the page reformats what was written.
ReadBacks == { <<>>, <<"a">>, <<"b">> }

\* Methods with the typed write ahead of the direct one.
MethodsTypeFirst == <<"type", "fill", "evaluate">>

\* methods, in list order.
Methods == <<"fill", "type", "evaluate">>

\* The selector, spliced between double quotes into the script of the third
\* method, breaks the script when it holds a double quote itself.
SelectorHasQuote(sel) ==
    IF sel.s # "" THEN sel.s # ".T-I.T-I-KE.L3"
    ELSE \E i \in 1..Len(sel.a) : sel.a[i] = "\""

\* The method raises on every page.
MethodRaises(m, sel) == m = "evaluate" /\ SelectorHasQuote(sel)

\* What the element holds after the method completed.
Written(m, k, held, v) ==
    IF m = "fill" THEN v
    ELSE IF m = "type" THEN held \o v
    ELSE IF k = "input" THEN v
    ELSE held

\* hasattr(element, 'input_value') holds of every element handle, so the
\* read-back is element.input_value(), which raises on a node that is not an
\* input, textarea or select.
ReadBackRaises(k) == k # "input"

\* Verified with the check narrowed to equality.
VerifiedExact(v, filled) == v = filled

\* `value in filled_value or filled_value in value`
Verified(v, filled) == IsSubstring(v, filled) \/ IsSubstring(filled, v)

\* OutlookProvider returns False once the three methods of an attempt failed;
\* GmailProvider goes on with the next attempt.
GivesUpAfterMethods(p) == p = "outlook"

\* What the page answers in one attempt: the probe; the position in methods
\* of the first write whose read-back passes the check, 0 when none does or
\* none is made; whether the wait before the next attempt completes.
Answer(o) == [probe |-> o, verified |-> 0, waited |-> TRUE]

\* The answers are kept for a helper called on its own, not within a session.
Noted(answers) == IF entry = "fill" THEN answers ELSE surface

FillFrame ==
    UNCHANGED <<apiVars, batchVars, entry, ret, findCalls, findVars, gateVars, sessVars,
                provider, selector, max_retries, value, kind, content0>>

\* One iteration of the attempt loop, up to the method loop.
fill_attempt ==
    /\ pc = "fill"
    /\ MoreAttempts(attempt, max_retries)
    /\ FillFrame
    /\ attempt' = attempt + 1
    /\ UNCHANGED <<issued, content, tried, filled_value, retryResult, lastUse>>
    /\ unverified' = {}
    /\ \E o \in ProbeOutcomes :
         /\ faultSeen' = (faultSeen \/ o = "fault")
         /\ element' = Acquired(attempt + 1, element, o)
         /\ visibleAt' = IF ElementUsable(o) THEN attempt + 1 ELSE visibleAt
         /\ deviated' = (deviated \/ ~ElementUsable(o))
         /\ surface' = Noted(Append(surface, Answer(o)))
         /\ midx' = 1
         /\ IF ElementUsable(o)
            THEN /\ log' = Append(log, "Filling")
                 /\ pc' = "fill_method"
            ELSE IF o \in {"timeout", "fault"}
            THEN /\ log' = log \o <<"Filling", "Fill attempt failed">>
                 /\ pc' = IF BackoffDue(attempt + 1, max_retries)
                          THEN "fill_backoff" ELSE "fill"
            ELSE /\ log' = Append(log, "Filling")
                 /\ pc' = "fill"

\* One iteration of the method loop.
\* w: the page lets the write complete; r: what the read-back answers.
fill_method ==
    /\ pc = "fill_method"
    /\ FillFrame
    /\ UNCHANGED <<attempt, element, visibleAt>>
    /\ lastUse' = <<element, attempt>>
    /\ LET m == Methods[midx]
       IN  /\ tried' = Append(tried, m)
           /\ issued' = issued \cup {m}
           /\ \E w \in BOOLEAN, rfault \in BOOLEAN,
                 r \in ReadBacks \cup {Written(m, kind, content, value)} :
                LET wrote == w /\ ~MethodRaises(m, selector)
                    held == IF wrote THEN Written(m, kind, content, value) ELSE content
                    read == wrote /\ ~rfault /\ ~ReadBackRaises(kind)
                    passed == read /\ Verified(value, r)
                IN  /\ content' = held
                    /\ filled_value' = IF read THEN r ELSE Null
                    /\ unverified' = IF read /\ ~passed THEN unverified \cup {m}
                                     ELSE unverified
                    /\ faultSeen' = (faultSeen \/ ~w \/ (wrote /\ rfault))
                    /\ deviated' = (deviated \/ ~w \/ (wrote /\ rfault)
                                             \/ (read /\ r # held))
                    /\ surface' = IF passed
                                  THEN Noted([surface EXCEPT ![attempt].verified = midx])
                                  ELSE surface
                    /\ IF passed
                       THEN /\ log' = Append(log, "Successfully filled")
                            /\ retryResult' = "True"
                            /\ pc' = ret
                            /\ midx' = midx
                       ELSE IF midx < Len(Methods)
                       THEN /\ midx' = midx + 1
                            /\ UNCHANGED <<log, retryResult, pc>>
                       ELSE IF GivesUpAfterMethods(provider)
                       THEN /\ log' = Append(log, "Could not verify field was filled properly")
                            /\ retryResult' = "False"
                            /\ pc' = ret
                            /\ midx' = midx
                       ELSE /\ pc' = "fill"
                            /\ midx' = 1
                            /\ UNCHANGED <<log, retryResult>>

\* `await self.page.wait_for_timeout(1000)` in the except clause.
fill_backoff ==
    /\ pc = "fill_backoff"
    /\ FillFrame
    /\ UNCHANGED <<log, issued, attempt, content, midx, tried, filled_value,
                   unverified, element, lastUse, visibleAt>>
    /\ \E waited \in BOOLEAN :
         IF waited
         THEN /\ pc' = "fill"
              /\ UNCHANGED <<retryResult, faultSeen, deviated, surface>>
         ELSE /\ pc' = RaiseTo
              /\ retryResult' = "raised"
              /\ faultSeen' = TRUE
              /\ deviated' = TRUE
              /\ surface' = Noted([surface EXCEPT ![attempt].waited = FALSE])

\* The statements after the loop.
fill_exhausted ==
    /\ pc = "fill"
    /\ ~MoreAttempts(attempt, max_retries)
    /\ FillFrame
    /\ log' = IF provider = "gmail"
              THEN Append(log, "Failed to fill after max_retries attempts")
              ELSE log
    /\ retryResult' = "False"
    /\ pc' = ret
    /\ UNCHANGED <<issued, attempt, content, midx, tried, filled_value,
                   unverified, faultSeen, deviated, surface, element, lastUse,
                   visibleAt>>

\* The page state a fill call meets, and its value argument.
FillMeets(v, k, held) ==
    /\ value' = v
    /\ kind' = k
    /\ content' = held
    /\ content0' = held
    /\ midx' = 1
    /\ tried' = <<>>
    /\ filled_value' = Null
    /\ unverified' = {}
    /\ deviated' = FALSE
    /\ surface' = <<>>

\* --------------------------------------------------------------- sessions
Providers == {"gmail", "outlook"}
Kinds == {"input", "editable"}

\* The node kinds a selector can denote. The table selectors for a div with
\* a textbox role or contenteditable denote a contenteditable node; the one
\* matching any aria-label and the synthesised ones may denote either kind;
\* the remaining table selectors name an input or a textarea.
KindsOf(sel) ==
    IF sel.s \in { "div[aria-label*=\"Message body\"]", "div[role=\"textbox\"]",
                   "div[contenteditable=\"true\"]",
                   "[aria-label*=\"message\" i][role=\"textbox\"]" }
    THEN {"editable"}
    ELSE IF sel.s \in {"", "[aria-label*=\"body\" i]"} THEN Kinds
    ELSE {"input"}

\* _mock_email_process: five log lines, no page call.
MockLines ==
    <<"=== DEMO MODE ===", "To", "Subject", "Body",
      "Email composition simulated successfully!">>

FindIdle ==
    /\ invoked' = <<>>
    /\ failedTiers' = {}
    /\ findResult' = Pending
    /\ FindLocalsReset
    /\ FindSeenReset

RetryIdle ==
    /\ selector' = NoSelector
    /\ max_retries' = DefaultMaxRetries
    /\ attempt' = 0
    /\ retryResult' = "pending"
    /\ element' = 0
    /\ lastUse' = NoUse
    /\ visibleAt' = 0

FillIdle == FillMeets(<<>>, "input", <<>>)

\* `return True` / `return False` of send_email after logging `lines`; the
\* finally clause runs next.
SessionReturns(result, lines) ==
    /\ log' = log \o lines
    /\ sessResult' = result
    /\ pc' = "cleanup"

\* The browser launch at the head of send_email (GmailProvider._launch_browser,
\* inline in OutlookProvider): it completes, raises before self.browser is
\* set, or raises after.
Launch(p) ==
    /\ pc = "send_email"
    /\ provider = p
    /\ \E o \in {"launched", "raise_early", "raise_late"} :
         /\ browser' = IF o = "raise_early" THEN browser ELSE "open"
         /\ faultSeen' = (faultSeen \/ o # "launched")
         /\ pc' = IF o = "launched" THEN "navigate" ELSE "send_email_except"
         /\ log' = log \o <<"Starting enhanced automation...">>
    /\ UNCHANGED <<apiVars, batchVars, entry, ret, issued, findCalls, findVars, gateVars, retryVars,
                   fillVars, sessResult, cleanups, setbacks>>

GmailLaunch == Launch("gmail")
OutlookLaunch == Launch("outlook")

\* GmailProvider.send_email: goto, wait_for_load_state, the handler, the gate.
GmailNavigate ==
    /\ pc = "navigate"
    /\ provider = "gmail"
    /\ UNCHANGED <<apiVars, batchVars, entry, issued, findCalls, field_type, invoked, failedTiers,
                   findResult, findLocals, findSeen, retryVars, fillVars, sessVars>>
    /\ \E loaded \in BOOLEAN :
         IF loaded
         THEN CallGate("gmail", "gmail_after_auth") /\ UNCHANGED faultSeen
         ELSE /\ faultSeen' = TRUE
              /\ pc' = "send_email_except"
              /\ log' = Append(log, "Navigating to Gmail...")
              /\ UNCHANGED <<ret, service, gateVars>>

\* OutlookProvider.send_email: the handler, goto, wait_for_load_state.
OutlookNavigate ==
    /\ pc = "navigate"
    /\ provider = "outlook"
    /\ log' = Append(log, "Navigating to Outlook Web...")
    /\ UNCHANGED <<apiVars, batchVars, entry, ret, issued, findCalls, findVars, gateVars, retryVars,
                   fillVars, sessVars>>
    /\ \E loaded \in BOOLEAN :
         /\ faultSeen' = (faultSeen \/ ~loaded)
         /\ pc' = IF loaded THEN "check_authentication" ELSE "send_email_except"

\* `await self.dom_handler._check_authentication()`: EnhancedDOMHandler has no
\* such attribute, the lookup raises AttributeError and the except clause of
\* send_email takes over.
OutlookCheckAuthentication ==
    /\ pc = "check_authentication"
    /\ pc' = "send_email_except"
    /\ UNCHANGED <<apiVars, batchVars, entry, ret, log, issued, faultSeen, findCalls, findVars,
                   gateVars, retryVars, fillVars, sessVars>>

\* GmailProvider.send_email after the gate returned.
GmailAfterAuth ==
    /\ pc = "gmail_after_auth"
    /\ UNCHANGED <<apiVars, batchVars, entry, issued, faultSeen, findCalls, gateVars, retryVars,
                   fillVars, browser, cleanups, setbacks>>
    /\ IF gateResult = "False"
       THEN /\ SessionReturns("True",
                   <<"Authentication required - falling back to demo mode">>
                   \o MockLines)
            /\ UNCHANGED <<ret, findVars>>
       ELSE CallFind("compose", "gmail", "gmail_after_compose")
            /\ UNCHANGED sessResult

\* GmailProvider.send_email after find_email_field('compose', 'gmail') returned.
GmailAfterCompose ==
    /\ pc = "gmail_after_compose"
    /\ UNCHANGED <<apiVars, batchVars, entry, issued, faultSeen, findCalls, service, field_type,
                   gateVars, fillVars, browser, cleanups, setbacks>>
    /\ FindIdle
    /\ IF findResult.status # "found"
       THEN /\ SessionReturns("True",
                   <<"Could not find compose button with any strategy">>
                   \o MockLines)
            /\ UNCHANGED <<ret, retryVars>>
       ELSE /\ CallRetry("gmail", findResult.selector, DefaultMaxRetries,
                         "gmail_after_click", "click")
            /\ UNCHANGED sessResult

\* GmailProvider.send_email after _click_with_retry returned: the wait for the
\* compose window and the first call of _fill_email_fields_enhanced.
GmailAfterClick ==
    /\ pc = "gmail_after_click"
    /\ UNCHANGED <<apiVars, batchVars, entry, issued, findCalls, gateVars, provider, fillVars,
                   browser, cleanups, setbacks>>
    /\ RetryIdle
    /\ IF retryResult # "True"
       THEN /\ SessionReturns("True", MockLines)
            /\ UNCHANGED <<ret, faultSeen, findVars>>
       ELSE \E waited \in BOOLEAN :
              IF waited
              THEN /\ CallFind("to", "gmail", "gmail_after_find")
                   /\ UNCHANGED <<sessResult, faultSeen>>
              ELSE /\ faultSeen' = TRUE
                   /\ pc' = "send_email_except"
                   /\ UNCHANGED <<ret, log, findVars, sessResult>>

\* The field order with the send control resolved after the body.
FieldAfterWithSend(ft) ==
    IF ft = "to" THEN "subject" ELSE IF ft = "subject" THEN "body"
    ELSE IF ft = "body" THEN "send" ELSE "end"

\* The field _fill_email_fields_enhanced turns to after field type ft.
FieldAfter(ft) == IF ft = "to" THEN "subject" ELSE IF ft = "subject" THEN "body" ELSE "end"

\* The message given up at the first field done with: send_email logs and
\* returns without turning to the fields left.
NextFieldGivesUp(lines) ==
    /\ SessionReturns("True", lines)
    /\ FindIdle
    /\ UNCHANGED <<ret, service, field_type>>

\* _fill_email_fields_enhanced moves on after field_type, logging `lines` first;
\* after the body, send_email logs and returns True.
NextField(lines) ==
    IF FieldAfter(field_type) = "end"
    THEN /\ SessionReturns("True",
                lines \o <<"Gmail email composition completed successfully!",
                           "Email ready to send (send disabled for demo safety)">>)
         /\ FindIdle
         /\ UNCHANGED <<ret, service, field_type>>
    ELSE /\ CallFind(FieldAfter(field_type), "gmail", "gmail_after_find")
         /\ UNCHANGED sessResult

\* _fill_email_fields_enhanced after a find_email_field call returned: the
\* compose window holds empty fields, inputs or contenteditable nodes.
GmailAfterFind ==
    /\ pc = "gmail_after_find"
    /\ UNCHANGED <<apiVars, batchVars, entry, issued, faultSeen, findCalls, gateVars, browser, cleanups>>
    /\ IF findResult.status = "found"
       THEN /\ \E v \in Values, k \in KindsOf(findResult.selector) :
                   FillMeets(v, k, <<>>)
            /\ CallRetry("gmail", findResult.selector, DefaultMaxRetries,
                         "gmail_after_fill", "fill")
            /\ FindIdle
            /\ UNCHANGED <<service, field_type, sessResult, setbacks>>
       ELSE /\ NextField(<<>>)
            /\ setbacks' = setbacks \cup {field_type}
            /\ UNCHANGED <<retryVars, fillVars>>

\* _fill_email_fields_enhanced after a _fill_field_with_retry call returned.
GmailAfterFill ==
    /\ pc = "gmail_after_fill"
    /\ UNCHANGED <<apiVars, batchVars, entry, issued, faultSeen, findCalls, gateVars, provider,
                   browser, cleanups>>
    /\ RetryIdle
    /\ FillIdle
    /\ setbacks' = IF retryResult = "True" THEN setbacks
                   ELSE setbacks \cup {field_type}
    /\ NextField(IF retryResult = "True" THEN <<>>
                 ELSE <<"Could not fill field - using fallback">>)

\* The except clause of send_email.
SendEmailExcept ==
    /\ pc = "send_email_except"
    /\ SessionReturns("False",
            <<"automation error", "Falling back to demo mode...">> \o MockLines)
    /\ UNCHANGED <<apiVars, batchVars, entry, ret, issued, faultSeen, findCalls, findVars, gateVars,
                   retryVars, fillVars, browser, cleanups, setbacks>>

\* The finally clause of send_email: _cleanup, whose own try statement keeps
\* an error of browser.close() inside.
Cleanup ==
    /\ pc = "cleanup"
    /\ cleanups' = cleanups + 1
    /\ pc' = "done"
    /\ IF browser = "open"
       THEN \E closed \in BOOLEAN :
              /\ browser' = IF closed THEN "closed" ELSE browser
              /\ faultSeen' = (faultSeen \/ ~closed)
              /\ log' = Append(log, IF closed THEN "Browser cleanup completed"
                                    ELSE "Cleanup warning")
       ELSE UNCHANGED <<browser, faultSeen, log>>
    /\ UNCHANGED <<apiVars, batchVars, entry, ret, issued, findCalls, findVars, gateVars, retryVars,
                   fillVars, sessResult, setbacks>>

\* ------------------------------------------ concurrent sessions, one agent
\* send_email_batch and run_performance_test gather several
\* execute_instruction calls on the one agent of get_agent, whose providers
\* dictionary holds one GmailProvider: the tasks share its browser, page and
\* dom_handler attributes. A task runs from one await to the next without
\* interruption; at an await any other task may run.
Tasks == 1..NumTasks

NoTask == 0

\* No send_email is running.
BatchIdle ==
    /\ tpc = [t \in Tasks |-> "idle"]
    /\ awaiting = [t \in Tasks |-> NoTask]
    /\ selfBrowser = NoTask
    /\ selfPage = NoTask
    /\ handlerPage = NoTask
    /\ touched = [t \in Tasks |-> {}]
    /\ closedBrowsers = {}

\* What the tasks leave alone: the state of the single-session operations.
BatchFrame ==
    UNCHANGED <<entry, pc, ret, log, issued, faultSeen, findCalls,
                findVars, gateVars, retryVars, fillVars, sessVars, apiVars>>

\* The call task t awaits can complete: its browser has not been closed.
Resumed(t) == awaiting[t] = NoTask \/ awaiting[t] \notin closedBrowsers

\* Task t, resumed at `from`, runs up to its next await: a call on the page
\* or browser of task `on`, awaited at `to`.
BatchStep(t, from, to, on) ==
    /\ tpc[t] = from
    /\ Resumed(t)
    /\ tpc' = [tpc EXCEPT ![t] = to]
    /\ awaiting' = [awaiting EXCEPT ![t] = on]
    /\ touched' = [touched EXCEPT ![t] = @ \cup {on}]
    /\ UNCHANGED closedBrowsers
    /\ BatchFrame

\* `self.browser = await ...launch(...)` returned; `self.browser.new_context()`.
BatchLaunch ==
    \E t \in Tasks :
        /\ BatchStep(t, "launch", "new_context", t)
        /\ selfBrowser' = t
        /\ UNCHANGED <<selfPage, handlerPage>>

\* `context = await ...` returned; `context.new_page()`.
BatchNewPage ==
    \E t \in Tasks :
        /\ BatchStep(t, "new_context", "new_page", t)
        /\ UNCHANGED <<selfBrowser, selfPage, handlerPage>>

\* `self.page = await ...` returned; `self.page.goto(...)`.
BatchGoto ==
    \E t \in Tasks :
        /\ BatchStep(t, "new_page", "goto", t)
        /\ selfPage' = t
        /\ UNCHANGED <<selfBrowser, handlerPage>>

\* goto returned; `self.page.wait_for_load_state('networkidle')`.
BatchLoad ==
    \E t \in Tasks :
        /\ BatchStep(t, "goto", "load", selfPage)
        /\ UNCHANGED <<selfBrowser, selfPage, handlerPage>>

\* The load returned; `self.dom_handler = EnhancedDOMHandler(self.page, ...)`
\* and the probes of `self.dom_handler.handle_authentication_challenge`.
BatchGate ==
    \E t \in Tasks :
        /\ BatchStep(t, "load", "gate", selfPage)
        /\ handlerPage' = selfPage
        /\ UNCHANGED <<selfBrowser, selfPage>>

\* The gate returned True; the probes of `self.dom_handler.find_email_field`.
BatchFind ==
    \E t \in Tasks :
        /\ BatchStep(t, "gate", "find", handlerPage)
        /\ UNCHANGED <<selfBrowser, selfPage, handlerPage>>

\* A selector was found; `self.page.wait_for_selector` and the click or
\* the write of a retry helper.
BatchInteract ==
    \E t \in Tasks :
        /\ BatchStep(t, "find", "interact", selfPage)
        /\ UNCHANGED <<selfBrowser, selfPage, handlerPage>>

\* send_email returns, or the awaited call raised and the except clause ran:
\* the finally clause is next.
BatchReturn ==
    \E t \in Tasks :
        /\ tpc[t] \in {"launch", "new_context", "new_page", "goto", "load",
                        "gate", "find", "interact"}
        /\ tpc' = [tpc EXCEPT ![t] = "cleanup"]
        /\ awaiting' = [awaiting EXCEPT ![t] = NoTask]
        /\ UNCHANGED <<selfBrowser, selfPage, handlerPage, touched,
              closedBrowsers>>
        /\ BatchFrame

\* _cleanup: `if self.browser: await self.browser.close()`.
BatchCleanup ==
    \E t \in Tasks :
        /\ tpc[t] = "cleanup"
        /\ tpc' = [tpc EXCEPT ![t] = "done"]
        /\ IF selfBrowser = NoTask
           THEN UNCHANGED <<touched, closedBrowsers>>
           ELSE /\ touched' = [touched EXCEPT ![t] = @ \cup {selfBrowser}]
                /\ closedBrowsers' = closedBrowsers \cup {selfBrowser}
        /\ UNCHANGED <<awaiting, selfBrowser, selfPage, handlerPage>>
        /\ BatchFrame

\* ------------------------------------------------- the API server, one agent
\* The /send-email endpoint serves its requests on the one agent of
\* get_agent, whose StepLogger is never emptied. A session is taken by what
\* send_email returns; the requests are served one after the other.
NumRequests == 2

\* provider_choice = None, the default of execute_instruction.
NoChoice == "<None>"

\* The values of provider a request carries: the registered names, 'both',
\* None, the empty string and a name that is not registered.
Choices == {"gmail", "outlook", "both", NoChoice, "", "yahoo"}

\* The selection with the default order reversed.
SelectProvidersReversed(choice) ==
    IF choice \in {"gmail", "outlook"} THEN <<choice>> ELSE <<"outlook", "gmail">>

\* `if provider_choice and provider_choice in self.providers: ... elif ... else ...`
SelectProviders(choice) ==
    IF choice # NoChoice /\ choice # "" /\ choice \in {"gmail", "outlook"}
    THEN <<choice>>
    ELSE IF choice = "both" THEN <<"gmail", "outlook">>
    ELSE <<"gmail", "outlook">>

\* What send_email of provider p returns: True or False for Gmail; False for
\* Outlook, whose _check_authentication call always raises.
SendEmailOutcomes(p) == IF p = "outlook" THEN {"False"} ELSE {"True", "False"}

\* A line logged while request n is served.
Line(n, text) == <<n, text>>

NoResponse == [n |-> 0, status |-> 0, success |-> FALSE, detail |-> "", logs |-> <<>>]

\* No request has arrived; with apc "off" the server is not part of the run.
ApiAt(at) ==
    /\ apc = at
    /\ agent_instance = "none"
    /\ steps = <<>>
    /\ request = [n |-> 0, provider |-> "both", async_mode |-> FALSE]
    /\ selected_providers = <<>>
    /\ pidx = 1
    /\ success = TRUE
    /\ ran = <<>>
    /\ execResult = "pending"
    /\ timedOut = FALSE
    /\ response = NoResponse

\* What the server leaves alone: the single operations and the batch tasks.
ApiFrame ==
    UNCHANGED <<entry, pc, ret, log, issued, faultSeen, findCalls,
                findVars, gateVars, retryVars, fillVars, sessVars, batchVars>>

\* send_email_endpoint up to the call of execute_instruction: get_agent, and
\* in async mode the task queued and the response returned at once.
send_email_endpoint ==
    /\ apc = "idle"
    /\ request.n < NumRequests
    /\ ApiFrame
    /\ \E c \in Choices, a \in BOOLEAN :
         /\ request' = [n |-> request.n + 1, provider |-> c, async_mode |-> a]
         /\ response' = IF a
                        THEN [n |-> request.n + 1, status |-> 200, success |-> TRUE,
                              detail |-> "",
                              logs |-> <<Line(request.n + 1, "Task started in background")>>]
                        ELSE response
    /\ agent_instance' = "made"
    /\ selected_providers' = <<>>
    /\ pidx' = 1
    /\ success' = TRUE
    /\ ran' = <<>>
    /\ execResult' = "pending"
    /\ timedOut' = FALSE
    /\ apc' = "execute_instruction"
    /\ UNCHANGED steps

\* execute_instruction up to the provider loop.
execute_instruction ==
    /\ apc = "execute_instruction"
    /\ ApiFrame
    /\ steps' = steps \o <<Line(request.n, "Received instruction"),
                           Line(request.n, "Parsed instruction")>>
    /\ selected_providers' = SelectProviders(request.provider)
    /\ success' = TRUE
    /\ pidx' = 1
    /\ apc' = "provider_loop"
    /\ UNCHANGED <<agent_instance, request, ran, execResult, timedOut, response>>

\* One iteration of the provider loop up to `await provider.send_email(...)`.
provider_start ==
    /\ apc = "provider_loop"
    /\ pidx <= Len(selected_providers)
    /\ ApiFrame
    /\ steps' = Append(steps, Line(request.n, "Starting " \o selected_providers[pidx]
                                              \o " automation..."))
    /\ apc' = "send_email"
    /\ UNCHANGED <<agent_instance, request, selected_providers, pidx, success, ran,
                   execResult, timedOut, response>>

\* send_email returned: its value is dropped, the iteration logs and ends.
send_email_returns ==
    /\ apc = "send_email"
    /\ ApiFrame
    /\ \E o \in SendEmailOutcomes(selected_providers[pidx]) :
         ran' = Append(ran, <<selected_providers[pidx], o>>)
    /\ steps' = steps \o
         <<Line(request.n, "Starting enhanced " \o selected_providers[pidx]
                           \o " automation..."),
           Line(request.n, "Successfully completed " \o selected_providers[pidx]
                           \o " automation")>>
    /\ pidx' = pidx + 1
    /\ apc' = "provider_loop"
    /\ UNCHANGED <<agent_instance, request, selected_providers, success, execResult,
                   timedOut, response>>

\* asyncio.wait_for gives up while send_email is awaited: the call is
\* cancelled, wait_for raises TimeoutError and the handler raises
\* HTTPException(408) inside the outer try statement.
wait_for_timeout ==
    /\ apc = "send_email"
    /\ ~request.async_mode
    /\ ApiFrame
    /\ timedOut' = TRUE
    /\ ran' = Append(ran, <<selected_providers[pidx], "cancelled">>)
    /\ steps' = Append(steps, Line(request.n, "Starting enhanced "
                                   \o selected_providers[pidx] \o " automation..."))
    /\ apc' = "http_exception"
    /\ UNCHANGED <<agent_instance, request, selected_providers, pidx, success,
                   execResult, response>>

\* `except Exception as e: raise HTTPException(status_code=500, detail=str(e))`
\* catches the HTTPException raised in the try statement.
endpoint_except ==
    /\ apc = "http_exception"
    /\ ApiFrame
    /\ response' = [n |-> request.n, status |-> 500, success |-> FALSE,
                    detail |-> "408: Request timed out", logs |-> <<>>]
    /\ apc' = "idle"
    /\ UNCHANGED <<agent_instance, steps, request, selected_providers, pidx, success,
                   ran, execResult, timedOut>>

\* `return success` behind the loop, and in the synchronous path the
\* response built from it and from agent.logger.get_log().
execute_returns ==
    /\ apc = "provider_loop"
    /\ pidx > Len(selected_providers)
    /\ ApiFrame
    /\ execResult' = IF success THEN "True" ELSE "False"
    /\ response' = IF request.async_mode THEN response
                   ELSE [n |-> request.n, status |-> 200, success |-> success,
                         detail |-> "", logs |-> steps]
    /\ apc' = "idle"
    /\ UNCHANGED <<agent_instance, steps, request, selected_providers, pidx, success,
                   ran, timedOut>>

\* ------------------------------------------------------------ specification
Entries == {"find", "gate", "click", "fill", "session"}

\* The selectors the retry helpers are exercised on: an input and a
\* contenteditable node of the tables, and a synthesised one without quotes.
HelperSelectors ==
    { TableSelector("input[name=\"to\"]"),
      TableSelector("div[contenteditable=\"true\"]"),
      MadeSelector(<<"#","t","o","-","f","i","e","l","d">>) }

\* The values of max_retries the helpers are exercised with.
RetryLimits == 0..DefaultMaxRetries

\* A run exercises one operation from its first statement: find_email_field
\* or handle_authentication_challenge on any service, a retry helper on any
\* selector and page state, or a whole send_email of either provider.
CoreInit ==
    /\ pc = CASE entry = "find" -> "find_email_field"
              [] entry = "gate" -> "gate"
              [] entry = "click" -> "click"
              [] entry = "fill" -> "fill"
              [] entry = "session" -> "send_email"
              [] OTHER -> "done"
    /\ ret = "done"
    /\ log = IF entry = "gate" THEN <<"Checking authentication state">> ELSE <<>>
    /\ issued = {}
    /\ faultSeen = FALSE
    /\ findCalls = {}
    /\ service \in IF entry \in {"find", "gate"} THEN Services ELSE {"gmail"}
    /\ field_type \in IF entry = "find" THEN FieldTypes ELSE {"compose"}
    /\ idx = 1
    /\ invoked = <<>>
    /\ failedTiers = {}
    /\ findResult = Pending
    /\ dom_structure = <<>>
    /\ candidates = <<>>
    /\ cidx = 1
    /\ sidx = 1
    /\ genSel = NoSelector
    /\ elemsLeft = 0
    /\ sawNewButton = FALSE
    /\ observed = {}
    /\ resolved = {}
    /\ swallowed = {}
    /\ gidx = 1
    /\ gateSeen = FALSE
    /\ gateResult = "pending"
    /\ provider \in IF entry \in {"fill", "session"} THEN Providers ELSE {"gmail"}
    /\ selector \in IF entry \in {"click", "fill"} THEN HelperSelectors
                    ELSE {NoSelector}
    /\ max_retries \in IF entry \in {"click", "fill"} THEN RetryLimits
                       ELSE {DefaultMaxRetries}
    /\ attempt = 0
    /\ retryResult = "pending"
    /\ element = 0
    /\ lastUse = NoUse
    /\ visibleAt = 0
    /\ value \in IF entry = "fill" THEN Values ELSE {<<>>}
    /\ kind \in IF entry = "fill" THEN KindsOf(selector) ELSE {"input"}
    /\ content \in IF entry = "fill" THEN Contents ELSE {<<>>}
    /\ content0 = content
    /\ midx = 1
    /\ tried = <<>>
    /\ filled_value = Null
    /\ unverified = {}
    /\ deviated = FALSE
    /\ surface = <<>>
    /\ sessResult = "pending"
    /\ browser = "none"
    /\ cleanups = 0
    /\ setbacks = {}

Init ==
    /\ entry \in Entries
    /\ CoreInit
    /\ BatchIdle
    /\ ApiAt("off")

Next ==
    \/ FindBegin
    \/ try_service_specific_selectors
    \/ try_semantic_selectors
    \/ AiEvaluateRaises
    \/ AiEvaluate
    \/ generate_selector_from_candidate
    \/ AiWait
    \/ VisualQueryRaises
    \/ VisualQuery
    \/ VisualElement
    \/ GateProbe
    \/ handle_auth_gracefully
    \/ GateAuthenticated
    \/ click_attempt
    \/ click_backoff
    \/ click_exhausted
    \/ fill_attempt
    \/ fill_method
    \/ fill_backoff
    \/ fill_exhausted
    \/ GmailLaunch
    \/ OutlookLaunch
    \/ GmailNavigate
    \/ OutlookNavigate
    \/ OutlookCheckAuthentication
    \/ GmailAfterAuth
    \/ GmailAfterCompose
    \/ GmailAfterClick
    \/ GmailAfterFind
    \/ GmailAfterFill
    \/ SendEmailExcept
    \/ Cleanup

Spec == Init /\ [][Next]_vars

\* The four core operations alone, each from its first statement.
OpsInit == Init /\ entry # "session"

OpsNext ==
    \/ FindBegin
    \/ try_service_specific_selectors
    \/ try_semantic_selectors
    \/ AiEvaluateRaises
    \/ AiEvaluate
    \/ generate_selector_from_candidate
    \/ AiWait
    \/ VisualQueryRaises
    \/ VisualQuery
    \/ VisualElement
    \/ GateProbe
    \/ handle_auth_gracefully
    \/ GateAuthenticated
    \/ click_attempt
    \/ click_backoff
    \/ click_exhausted
    \/ fill_attempt
    \/ fill_method
    \/ fill_backoff
    \/ fill_exhausted

\* Every page call is awaited with a timeout, so it returns or raises and the
\* event loop resumes the coroutine: an operation that can step does step.
LiveSpec == OpsInit /\ [][OpsNext]_vars /\ WF_vars(OpsNext)

\* asyncio.gather has started every task: each awaits its browser launch.
BatchInit ==
    /\ entry = "batch"
    /\ CoreInit
    /\ tpc = [t \in Tasks |-> "launch"]
    /\ awaiting = [t \in Tasks |-> NoTask]
    /\ selfBrowser = NoTask
    /\ selfPage = NoTask
    /\ handlerPage = NoTask
    /\ touched = [t \in Tasks |-> {}]
    /\ closedBrowsers = {}
    /\ ApiAt("off")

BatchNext ==
    \/ BatchLaunch
    \/ BatchNewPage
    \/ BatchGoto
    \/ BatchLoad
    \/ BatchGate
    \/ BatchFind
    \/ BatchInteract
    \/ BatchReturn
    \/ BatchCleanup

BatchSpec == BatchInit /\ [][BatchNext]_vars

\* The API server alone: requests on the one agent, from the first.
ApiInit ==
    /\ entry = "api"
    /\ CoreInit
    /\ BatchIdle
    /\ ApiAt("idle")

ApiNext ==
    \/ send_email_endpoint
    \/ execute_instruction
    \/ provider_start
    \/ send_email_returns
    \/ wait_for_timeout
    \/ endpoint_except
    \/ execute_returns

ApiSpec == ApiInit /\ [][ApiNext]_vars

\* ------------------------------------------------------------------ claims
AllTiers == {"service_specific", "semantic", "ai_dom_analysis", "visual"}

IsPrefix(s, u) == Len(s) <= Len(u) /\ \A i \in 1..Len(s) : s[i] = u[i]

\* The number of lines of the log equal to `line`.
LogCount(line) == Cardinality({i \in 1..Len(log) : log[i] = line})

\* C1: find_email_field calls the strategies in the order service-specific,
\* semantic, AI DOM analysis, visual; it calls a strategy only after every
\* earlier one returned None; and the selector it returns is the one of the
\* last strategy called, so no strategy runs after the first that produced one.
C1_TierOrderPrecedence ==
    /\ IsPrefix(invoked, <<"service_specific", "semantic", "ai_dom_analysis", "visual">>)
    /\ \A i \in 1..(Len(invoked) - 1) : invoked[i] \in failedTiers
    /\ findResult.status = "found" =>
         /\ findResult.tier = invoked[Len(invoked)]
         /\ findResult.tier \notin failedTiers
         /\ findResult.selector # NoSelector

\* C1 witness: the service-specific strategy hit and nothing else was called.
C1_Witness ==
    /\ entry = "find"
    /\ pc = "done"
    /\ findResult.status = "found"
    /\ findResult.tier = "service_specific"
    /\ invoked = <<"service_specific">>

\* C2: in a provider session, once an authentication indicator was seen
\* visible at the gate, find_email_field is never called and no strategy runs.
C2_BlockedIsTerminal ==
    (entry = "session" /\ gateSeen) => (findCalls = {} /\ invoked = <<>>)

\* C3: a provider session that ended without having seen an authentication
\* indicator and without a fault of the page has called find_email_field for
\* the compose role.
C3_ProceedsToCompose ==
    (entry = "session" /\ pc = "done" /\ ~gateSeen /\ ~faultSeen)
        => "compose" \in findCalls

\* C4: handle_authentication_challenge returns False whenever an indicator was
\* seen visible, and True only when none was.
C4_GateReportsWhatItSaw ==
    gateResult # "pending" => (gateResult = "False" <=> gateSeen)

\* C5: no step of handle_authentication_challenge or _handle_auth_gracefully
\* asks the page for a click, fill, type or in-page write.
C5_GateNeverWrites ==
    [][(pc \in {"gate", "handle_auth_gracefully"}) => (issued' = issued)]_vars

\* C5 witness: the gate saw an indicator, went through the grace period and
\* returned False with nothing written.
C5_Witness ==
    /\ entry = "gate"
    /\ pc = "done"
    /\ gateSeen
    /\ gateResult = "False"
    /\ issued = {}

\* C6: find_email_field returns None exactly when each of the four strategies
\* returned None in that call, and it always ends by returning: a selector or None.
C6_NotFoundIffAllTiersFailed ==
    findResult.status # "pending" =>
        /\ findResult.status \in {"found", "None"}
        /\ findResult.status = "None" <=> failedTiers = AllTiers

\* C6 witness: a call that ended with None after all four strategies.
C6_Witness ==
    /\ entry = "find"
    /\ pc = "done"
    /\ findResult.status = "None"
    /\ invoked = <<"service_specific", "semantic", "ai_dom_analysis", "visual">>

\* C7: once a page call inside find_email_field raised a fault, the call has
\* ended by reporting the fault: nothing more is probed and the result is
\* neither a selector nor None.
C7_FaultIsReported ==
    (entry = "find" /\ faultSeen) => (pc = "done" /\ findResult.status = "fault")

\* C8: _fill_field_with_retry returns False only after max_retries attempts.
C8_FillFailsOnlyAfterAllAttempts ==
    (entry = "fill" /\ retryResult = "False") => attempt = max_retries

\* C9: _click_with_retry makes at most max_retries attempts; it returns True
\* at the one attempt whose click completed and makes no attempt after it; it
\* returns False exactly when max_retries attempts were made and none clicked,
\* and an exhausted call ends with that value, not with an exception.
C9_ClickRetryBound ==
    entry = "click" =>
        /\ attempt <= max_retries
        /\ LogCount("Successfully clicked") <= 1
        /\ retryResult = "True" <=> LogCount("Successfully clicked") = 1
        /\ retryResult = "True" => pc = "done"
        /\ retryResult = "False" <=>
             (pc = "done" /\ attempt = max_retries
                          /\ LogCount("Successfully clicked") = 0)
        /\ retryResult = "raised" => attempt < max_retries

\* C9 witness: three attempts, none clicked, False returned.
C9_Witness ==
    /\ entry = "click"
    /\ pc = "done"
    /\ max_retries = DefaultMaxRetries
    /\ attempt = DefaultMaxRetries
    /\ retryResult = "False"

\* C10: called on a visible field that already holds the value, on a page that
\* answers faithfully, _fill_field_with_retry calls one write method at most
\* and does not end in failure.
C10_FillIsIdempotent ==
    (entry = "fill" /\ max_retries > 0 /\ content0 = value /\ ~deviated) =>
        /\ Len(tried) <= 1
        /\ retryResult \notin {"False", "raised"}

\* A call of _fill_field_with_retry is in progress or has just returned.
FillCall == entry = "fill" \/ (entry = "session" /\ ret = "gmail_after_fill")

\* C11: _fill_field_with_retry has returned True exactly when the last write
\* method called completed, its read-back was obtained, and the value is a
\* substring of the read-back or the read-back a substring of the value; so
\* an empty read-back makes any value a success.
C11_SuccessMeansVerified ==
    FillCall =>
        /\ retryResult = "True" <=>
             /\ filled_value # Null
             /\ IsSubstring(value, filled_value) \/ IsSubstring(filled_value, value)
        /\ retryResult = "True" => (tried # <<>> /\ pc = ret)
        /\ filled_value = <<>> => retryResult = "True"

\* C11 witness: a non-empty value was written, the read-back was empty, and
\* the call returned True.
C11_Witness ==
    /\ entry = "fill"
    /\ pc = "done"
    /\ value = <<"a">>
    /\ filled_value = <<>>
    /\ retryResult = "True"

\* C12: the write methods of an attempt are called in the order fill, type,
\* in-page write; a method is called only while no earlier one has passed
\* verification; nothing is called after one passed; and an attempt that
\* reached its methods is followed by another only after all three failed.
C12_MethodOrder ==
    FillCall =>
        /\ \A i \in 1..Len(tried) :
             tried[i] = <<"fill", "type", "evaluate">>[((i - 1) % 3) + 1]
        /\ pc = "fill_method" =>
             /\ Len(tried) % 3 = midx - 1
             /\ retryResult = "pending"
        /\ pc \in {"fill", "fill_backoff"} =>
             /\ Len(tried) % 3 = 0
             /\ retryResult = "pending"
        /\ retryResult = "True" => pc \notin {"fill", "fill_method", "fill_backoff"}

\* C12 witness: the three methods of the first attempt failed and the second
\* attempt has begun again with the direct fill.
C12_Witness ==
    /\ entry = "fill"
    /\ attempt = 2
    /\ pc = "fill_method"
    /\ tried = <<"fill", "type", "evaluate", "fill">>

\* C13: when the direct fill completed but failed verification and the typed
\* write then passed, in the first attempt, the call returned True and the
\* log holds, after the line of the attempt, one line for each of the two
\* write methods called.
C13_BothMethodsLogged ==
    (FillCall /\ attempt = 1 /\ tried = <<"fill", "type">>
              /\ "fill" \in unverified /\ pc = ret) =>
        /\ retryResult = "True"
        /\ Len(log) >= 1 + Len(tried)

\* The log lines that name a strategy.
TierLines(t) ==
    CASE t = "service_specific" -> {"Found with service-specific selector"}
      [] t = "semantic" -> {"Found with semantic selector"}
      [] t = "ai_dom_analysis" -> {"Trying AI DOM analysis", "AI DOM analysis failed",
                                   "Found with AI analysis"}
      [] t = "visual" -> {"Trying visual detection", "Found with visual pattern",
                          "Found near visual pattern"}

\* C14: a find_email_field call in which the four strategies failed returned
\* None and logged, during the call, a line for each of the four strategies.
C14_OneLinePerTier ==
    (entry = "find" /\ pc = "done" /\ failedTiers = AllTiers) =>
        /\ findResult.status = "None"
        /\ \A t \in AllTiers : \E i \in 1..Len(log) : log[i] \in TierLines(t)

\* C15: when the snapshot analysed for the compose role holds the button with
\* text New, role button and no other attribute, the analysis does not fail,
\* and the candidates it ranks start with that button, scored 1 + 2 = 3.
C15_NewButtonScoredThree ==
    (field_type = "compose" /\ sawNewButton) =>
        /\ LogCount("AI DOM analysis failed") = 0
        /\ pc = "ai_generate" =>
             /\ candidates[1].text = <<"N", "e", "w">>
             /\ candidates[1].ai_score = 3

\* The elements of dom with score n under role ft, in scan order.
WithScore(dom, ft, n) == SelectSeq(dom, LAMBDA el : Score(el, ft) = n)

\* The elements of dom with a score of n or less and above 0, highest score
\* first, equal scores in scan order.
RECURSIVE Ranked(_, _, _)
Ranked(dom, ft, n) ==
    IF n = 0 THEN <<>> ELSE WithScore(dom, ft, n) \o Ranked(dom, ft, n - 1)

\* The highest score a role can give: one per keyword and the bonus.
MaxScore(ft) == Len(field_keywords(ft)) + 2

\* The sequence of the ai_score entries of a candidate list.
ScoresOf(c) == [i \in 1..Len(c) |-> c[i].ai_score]

\* C16: the candidates _ai_field_matching returned are what a second call on
\* the same batch returns, element for element and score for score, and
\* they are the first three of the batch ranked by score, equal scores in
\* scan order.
C16_ScoringDeterministic ==
    pc = "ai_generate" =>
        LET again == ai_field_matching(dom_structure, field_type)
            ranked == Ranked(dom_structure, field_type, MaxScore(field_type))
        IN  /\ again = candidates
            /\ ScoresOf(again) = ScoresOf(candidates)
            /\ Len(candidates) = IF Len(ranked) < 3 THEN Len(ranked) ELSE 3
            /\ \A i \in 1..Len(candidates) :
                 /\ candidates[i] = ranked[i]
                 /\ candidates[i].ai_score = Score(candidates[i], field_type)

\* C16 witness: of five scored elements three were kept, and two different
\* elements with the same score stand in their scan order.
C16_Witness ==
    /\ pc = "ai_generate"
    /\ Len(dom_structure) = 5
    /\ Len(candidates) = 3
    /\ candidates[1].ai_score = candidates[2].ai_score
    /\ candidates[1] # candidates[2]
    /\ candidates[1] = dom_structure[2]
    /\ candidates[2] = dom_structure[3]

\* C17: of the sessions running concurrently on the shared agent, each
\* operates only on the browser and the page it launched itself.
C17_SessionsIsolated ==
    entry = "batch" => \A t \in Tasks : touched[t] \subseteq {t}

\* The positions in the lists walked stay within the lists: the selector and
\* pattern tables, the candidates kept, the selectors of a candidate, the
\* indicators, the attempts and the write methods.
ProbesBounded ==
    /\ pc = "service_specific" => idx <= Len(selectors_map(service, field_type)) + 1
    /\ pc = "semantic" => idx <= Len(semantic_selectors(field_type)) + 1
    /\ pc \in {"visual", "visual_elements"} =>
         idx <= Len(visual_patterns(field_type)) + 1
    /\ elemsLeft <= MaxElems
    /\ Len(candidates) <= TopCandidates
    /\ cidx <= TopCandidates
    /\ sidx <= 5
    /\ gidx <= Len(auth_indicators(service)) + 1
    /\ attempt <= max_retries
    /\ midx <= Len(Methods)
    /\ Len(tried) <= Len(Methods) * max_retries
    /\ Len(invoked) <= 4

\* The operation of this run has returned a value.
Returned ==
    CASE entry = "find" -> findResult.status \in {"found", "None"}
      [] entry = "gate" -> gateResult \in {"True", "False"}
      [] OTHER -> retryResult \in {"True", "False"}

C19_ReturnedWasSeenVisible ==
    findResult.status = "found" => findResult.selector \in observed

\* C20: the handle a click, a write or a read-back of a retry helper uses is
\* the one wait_for_selector returned at the start of the same attempt,
\* never one of an earlier attempt.
C20_HandleOfSameAttempt ==
    /\ lastUse[1] = lastUse[2]
    /\ pc = "fill_method" => element = attempt

\* C20 witness: the third fill attempt wrote through the handle it acquired.
C20_Witness ==
    /\ entry = "fill"
    /\ attempt = 3
    /\ lastUse = <<3, 3>>
    /\ Len(tried) = 7

\* An attribute as text, a null attribute as the empty text.
Shown(v) == IF v = Null THEN <<>> ELSE v

\* The number of keywords of role ft that occur, whatever the case, in the
\* attributes of el joined in the order ARIA label, placeholder, text, id,
\* class list.
KeywordHits(el, ft) ==
    LET joined == Lower(JoinSpace([i \in 1..5 |-> Shown(TextAttrs(el)[i])]))
    IN  Cardinality({k \in DOMAIN field_keywords(ft) :
                        IsSubstring(Lower(field_keywords(ft)[k]), joined)})

\* C21: on every snapshot the scorer completes, so that with no page call
\* raising the analysis is never logged as failed, and the score it gives an
\* element is the number of keywords of the role occurring in the element's
\* attributes, plus the bonus of the element's kind.
C21_KeywordScoreTotal ==
    /\ (entry = "find" /\ ~faultSeen) => LogCount("AI DOM analysis failed") = 0
    /\ pc = "ai_generate" =>
         \A i \in 1..Len(dom_structure) :
            LET el == dom_structure[i]
                hits == KeywordHits(el, field_type) + TypeBonus(el, field_type)
            IN  IF HasScore(el) THEN el.ai_score = hits ELSE hits = 0

\* The snapshot takes a div only as div[contenteditable] or div[role="button"]
\* and does not record the contenteditable attribute; of the catalogue, the
\* div with role button is not content-editable, the div with role textbox is.
ContentEditable(el) == el.tag = TagDiv /\ el.role # RoleButton

\* The element is of the kind role ft looks for: an input for the recipient
\* and the subject, a textarea or a content-editable container for the body,
\* a button tag or role button for Compose and Send.
KindMatches(el, ft) ==
    \/ ft \in {"to", "subject"} /\ el.tag = TagInput
    \/ ft = "body" /\ (el.tag = TagTextarea \/ ContentEditable(el))
    \/ ft \in {"compose", "send"} /\ (el.tag = TagButton \/ el.role = RoleButton)

\* C22: the scorer adds 2 to the keyword count of an element exactly when
\* the element is of the kind the role looks for; a <button> without a role
\* attribute has the bonus for compose and send, a div with role button
\* that is not content-editable has none for body.
C22_BonusByKind ==
    pc = "ai_generate" =>
        \A i \in 1..Len(dom_structure) :
            LET el == dom_structure[i]
                claimed == KeywordScore(el, field_type)
                           + (IF KindMatches(el, field_type) THEN 2 ELSE 0)
            IN  IF HasScore(el) THEN el.ai_score = claimed ELSE claimed = 0

\* C23: the candidates _ai_field_matching returned are at most three elements
\* of the batch, each with a score above 0, standing by falling score and,
\* at equal score, in scan order; an element of the batch left out has no
\* score above 0 unless three were kept, and would stand behind every
\* candidate: none left out has a higher score than one kept.
C23_TopThreeRanked ==
    pc = "ai_generate" =>
        LET n == Len(candidates)
            m == Len(dom_structure)
        IN  /\ n <= 3
            /\ \E f \in [1..n -> 1..m] :
                 /\ \A i \in 1..n :
                      /\ candidates[i] = dom_structure[f[i]]
                      /\ candidates[i].ai_score > 0
                 /\ \A i, j \in 1..n :
                      i < j =>
                        /\ f[i] # f[j]
                        /\ \/ candidates[i].ai_score > candidates[j].ai_score
                           \/ /\ candidates[i].ai_score = candidates[j].ai_score
                              /\ f[i] < f[j]
                 /\ \A k \in (1..m) \ {f[i] : i \in 1..n} :
                      LET sc == Score(dom_structure[k], field_type)
                      IN  /\ n < 3 => sc = 0
                          /\ \A i \in 1..n :
                               \/ sc < candidates[i].ai_score
                               \/ sc = candidates[i].ai_score /\ k > f[i]

\* C23 witness: of five inputs scored for the recipient three were kept, the
\* input seen twice both times, and two inputs with the score of the third
\* candidate were left out.
C23_Witness ==
    /\ pc = "ai_generate"
    /\ field_type = "to"
    /\ Len(dom_structure) = 5
    /\ Len(candidates) = 3
    /\ candidates[2] = dom_structure[4]
    /\ candidates[3] = dom_structure[2]
    /\ dom_structure[3] # candidates[3]
    /\ dom_structure[3].ai_score = candidates[3].ai_score

\* C24: _generate_selector_from_candidate has a locator to probe for every
\* candidate: one with no id, no ARIA label and no placeholder is still
\* probed, by its tag and role.
C24_EveryCandidateProbed ==
    pc = "ai_generate" => Len(CandidateSelectors(candidates[cidx])) >= 1

\* C25 as stated: the heuristic tier returns the locator of the first
\* candidate a locator of which resolves to a live element, and fails only
\* when no locator of a candidate resolves.
C25_FirstResolvedReturned ==
    /\ (findResult.status = "found" /\ findResult.tier = "ai_dom_analysis") =>
          Cardinality(resolved) = 1
    /\ "ai_dom_analysis" \in failedTiers => resolved = {}

\* The heuristic tier is walking its candidates.
InCandidateLoop == pc \in {"ai_generate", "ai_wait"}

\* C25: the heuristic tier walks at most three candidates in rank order; the
\* locator it returns is a synthesised one that resolved and that a second
\* probe then found present and visible, of the first candidate with such a
\* locator; the tier fails only behind the last candidate, none confirmed.
C25_FirstConfirmedReturned ==
    /\ [](/\ InCandidateLoop =>
               /\ Len(candidates) <= 3
               /\ cidx \in 1..Len(candidates)
               /\ resolved \subseteq 1..cidx
               /\ observed = {}
               /\ pc = "ai_wait" =>
                    /\ cidx \in resolved
                    /\ \E k \in DOMAIN CandidateSelectors(candidates[cidx]) :
                          genSel = CandidateSelectors(candidates[cidx])[k]
          /\ (findResult.status = "found" /\ findResult.tier = "ai_dom_analysis") =>
               /\ findResult.selector \in observed
               /\ findResult.selector.s = ""
               /\ resolved # {})
    /\ [][/\ (InCandidateLoop /\ InCandidateLoop') => cidx' \in {cidx, cidx + 1}
          /\ (pc = "ai_wait" /\ findResult'.status = "found") =>
               /\ findResult'.tier = "ai_dom_analysis"
               /\ findResult'.selector = genSel
          /\ (InCandidateLoop /\ "ai_dom_analysis" \in failedTiers') =>
               /\ cidx = Len(candidates)
               /\ observed' = {}
               /\ findResult'.status # "found"]_vars

\* C25 witness: a locator of the first candidate resolved but its element was
\* not confirmed visible, and the tier returned the locator of the second.
C25_Witness ==
    /\ entry = "find"
    /\ findResult.status = "found"
    /\ findResult.tier = "ai_dom_analysis"
    /\ resolved = {1, 2}

\* The services find_email_field has a table of curated selectors for.
Profiled == {"gmail", "outlook"}

\* C26: for a service without a profile the service-specific strategy has no
\* locator to walk: it returns no selector and issues no probe, so that no
\* element is observed and no page call can raise, and find_email_field goes
\* on to the semantic strategy.
C26_UnknownServiceFallsThrough ==
    /\ [](service \notin Profiled => findResult.tier # "service_specific")
    /\ [][(pc = "service_specific" /\ service \notin Profiled) =>
            /\ pc' = "semantic"
            /\ idx' = 1
            /\ invoked' = Append(invoked, "semantic")
            /\ failedTiers' = failedTiers \cup {"service_specific"}
            /\ findResult' = findResult
            /\ observed' = observed
            /\ faultSeen' = faultSeen]_vars

\* C26 witness: for the service generic the semantic strategy is about to
\* probe its first locator, nothing probed so far.
C26_Witness ==
    /\ entry = "find"
    /\ service = "generic"
    /\ pc = "semantic"
    /\ idx = 1
    /\ invoked = <<"service_specific", "semantic">>
    /\ failedTiers = {"service_specific"}
    /\ observed = {}
    /\ ~faultSeen

\* The list a table-driven strategy walks.
TableOf(tier) ==
    IF tier = "service_specific" THEN selectors_map(service, field_type)
    ELSE semantic_selectors(field_type)

\* A step of a table-driven strategy: past the end of its list it returns
\* nothing; else it passes over the locator at idx, nothing observed visible,
\* or returns that locator, observed visible.
TableStep ==
    pc \in {"service_specific", "semantic"} =>
        LET list == TableOf(pc)
        IN  IF idx > Len(list)
            THEN findResult'.status # "found" /\ observed' = observed
            ELSE \/ /\ pc' = pc
                    /\ idx' = idx + 1
                    /\ observed' = observed
                    /\ findResult' = findResult
                 \/ /\ pc' = ret
                    /\ observed' = {TableSelector(list[idx])}
                    /\ findResult'.status = "found"
                    /\ findResult'.tier = pc
                    /\ findResult'.selector = TableSelector(list[idx])

\* C27: the service-specific and the semantic strategy probe their locators
\* one by one in list order; a locator whose element is absent, hidden or
\* whose probe raises is passed over, the first whose element is present and
\* visible is returned, and with the return the walk ends, so that no
\* locator behind it is probed.
C27_FirstVisibleInListOrder ==
    /\ [](pc \in {"service_specific", "semantic"} =>
            /\ idx \in 1..(Len(TableOf(pc)) + 1)
            /\ observed = {})
    /\ [][TableStep]_vars

\* C27 witness: the semantic strategy returned its third locator after a
\* probe of an earlier one had raised.
C27_Witness ==
    /\ entry = "find"
    /\ faultSeen
    /\ findResult.status = "found"
    /\ findResult.tier = "semantic"
    /\ findResult.selector = TableSelector(semantic_selectors(field_type)[3])
    /\ observed = {findResult.selector}

\* _click_with_retry is running or has returned to its caller.
InClickHelper ==
    \/ pc \in {"click", "click_backoff"}
    \/ entry = "click" /\ pc = "done"

\* A step of _click_with_retry: an attempt that ended in an exception with
\* attempts left is followed by the backoff wait, and the next attempt
\* begins only once that wait has returned.
BackoffStep ==
    /\ (/\ pc = "click"
        /\ log' = log \o <<"Clicking", "Attempt failed">>
        /\ MoreAttempts(attempt', max_retries)) => pc' = "click_backoff"
    /\ pc = "click_backoff" =>
         \/ pc' = "click" /\ attempt' = attempt
         \/ pc' = RaiseTo /\ retryResult' = "raised"

\* C28: _click_with_retry clicks only a handle it acquired and saw visible in
\* the attempt that clicks, and after every attempt that ended in an
\* exception it waits out the backoff before the next attempt begins.
C28_ClickOnVisibleThenBackoff ==
    /\ [](InClickHelper =>
            /\ lastUse # NoUse => lastUse = <<visibleAt, visibleAt>>
            /\ (entry = "click" /\ "click" \in issued) =>
                 /\ visibleAt \in 1..attempt
                 /\ lastUse = <<visibleAt, visibleAt>>
            /\ retryResult = "True" => visibleAt = attempt)
    /\ [][BackoffStep]_vars

\* C28 witness: the first attempt ended in an exception, the backoff was
\* waited out, and the second attempt clicked the element it saw visible.
C28_Witness ==
    /\ entry = "click"
    /\ pc = "done"
    /\ retryResult = "True"
    /\ attempt = 2
    /\ visibleAt = 2
    /\ lastUse = <<2, 2>>
    /\ log = <<"Clicking", "Attempt failed", "Clicking", "Successfully clicked">>

\* The locator of a nested input by the order id, ARIA label, placeholder,
\* tag name: the tag name for an element with none of the three.
LocatorByTagLast(el) ==
    IF Truthy(el.id) \/ Truthy(el.ariaLabel) \/ Truthy(el.placeholder)
    THEN get_element_selector(el)
    ELSE MadeSelector(el.tag)

\* C29: the selector the visual strategy returns for a field is the locator
\* of an input nested in the matched element, made from the first of id,
\* ARIA label and placeholder the input carries and from its tag name when
\* it carries none.
C29_NestedLocatorTagLast ==
    (/\ findResult.status = "found"
     /\ findResult.tier = "visual"
     /\ field_type \notin {"compose", "send"}) =>
        \E d \in NestedCatalogue : findResult.selector = LocatorByTagLast(d)

\* A step of the visual strategy: the loop goes on at the pattern at idx or
\* the next one; or the strategy returns a selector found under the pattern
\* at idx, whose element it saw visible; or, behind the last pattern, it
\* returns nothing. An exception ends none of these another way.
VisualStep ==
    pc \in {"visual", "visual_elements"} =>
        LET patterns == visual_patterns(field_type)
        IN  \/ /\ idx <= Len(patterns)
               /\ pc' \in {"visual", "visual_elements"}
               /\ idx' \in {idx, idx + 1}
               /\ swallowed' \in {swallowed, swallowed \cup {idx}}
               /\ swallowed' # swallowed => pc' = "visual" /\ idx' = idx + 1
               /\ findResult' = findResult
            \/ /\ idx <= Len(patterns)
               /\ pc' = ret
               /\ swallowed' = swallowed
               /\ findResult'.status = "found"
               /\ findResult'.tier = "visual"
               /\ VisualSelector(patterns[idx]) \in observed'
               /\ field_type \in {"compose", "send"} =>
                    findResult'.selector = VisualSelector(patterns[idx])
            \/ /\ idx > Len(patterns)
               /\ pc' = ret
               /\ swallowed' = swallowed
               /\ findResult'.status = "None"

\* C30: the visual strategy tries its patterns in list order and returns at
\* the first that yields a selector; an exception while a pattern is probed
\* is swallowed and the loop goes on with the next pattern, so that the
\* strategy ends with a selector or with nothing, never with an exception.
C30_PatternsInOrderNoRaise ==
    /\ [](/\ pc \in {"visual", "visual_elements"} =>
               /\ idx \in 1..(Len(visual_patterns(field_type)) + 1)
               /\ swallowed \subseteq 1..(idx - 1)
               /\ observed \subseteq
                    {VisualSelector(visual_patterns(field_type)[k]) :
                        k \in {j \in DOMAIN visual_patterns(field_type) : j <= idx}}
          /\ swallowed \subseteq 1..Len(visual_patterns(field_type))
          /\ (entry = "find" /\ pc = "done") => findResult.status \in {"found", "None"})
    /\ [][VisualStep]_vars

\* C30 witness: probing the first pattern raised, and the strategy returned
\* the selector of the second.
C30_Witness ==
    /\ entry = "find"
    /\ field_type = "compose"
    /\ swallowed = {1}
    /\ findResult.status = "found"
    /\ findResult.tier = "visual"
    /\ findResult.selector = VisualSelector(visual_patterns("compose")[2])

\* C32: scoring leaves the descriptors of the batch as the snapshot captured
\* them, no field added, removed or altered, and a find_email_field call
\* that has returned has left no batch, candidate or locator behind.
C32_DescriptorsUntouched ==
    /\ pc = "ai_generate" =>
         \A i \in 1..Len(dom_structure) : dom_structure[i] \in Descriptors
    /\ findResult.status \in {"found", "None"} =>
         /\ dom_structure = <<>>
         /\ candidates = <<>>
         /\ genSel = NoSelector

\* A step of a session into _click_with_retry: it clicks the selector
\* find_email_field has just returned for the compose trigger.
ClickEntryStep ==
    (entry = "session" /\ pc # "click" /\ pc # "click_backoff" /\ pc' = "click") =>
        /\ field_type = "compose"
        /\ findResult.status = "found"
        /\ selector' = findResult.selector

\* C37: a session never resolves the send control and never clicks it: the
\* field types it calls find_email_field for are compose, to, subject and
\* body, and the one selector it hands to _click_with_retry is the one
\* found for compose.
C37_NeverSends ==
    /\ [](entry = "session" =>
            /\ "send" \notin findCalls
            /\ field_type # "send"
            /\ pc \in {"click", "click_backoff"} => field_type = "compose"
            /\ "click" \in issued => "compose" \in findCalls)
    /\ [][ClickEntryStep]_vars

\* C37 witness: a session clicked the compose trigger, went through the three
\* fields and returned True with the browser closed.
C37_Witness ==
    /\ entry = "session"
    /\ pc = "done"
    /\ sessResult = "True"
    /\ browser = "closed"
    /\ "click" \in issued
    /\ findCalls = {"compose", "to", "subject", "body"}

\* C36: send_email runs _cleanup once on every way out and so closes the
\* browser it launched: a session that has ended has its own browser
\* closed, on a provider used by one session and on one shared by
\* concurrent sessions alike.
C36_OwnBrowserClosed ==
    \A t \in Tasks : (tpc[t] = "done" /\ t \in touched[t]) => t \in closedBrowsers

MessageFields == {"to", "subject", "body"}

\* A step of a session that calls find_email_field: the compose trigger
\* first, then the recipient, the subject and the body, each once.
FieldResolveStep ==
    (entry = "session" /\ findCalls' # findCalls) =>
        /\ findCalls' = findCalls \cup {field_type'}
        /\ \/ field_type' = "compose" /\ findCalls = {}
           \/ field_type' = "to" /\ findCalls = {"compose"}
           \/ field_type' = "subject" /\ findCalls = {"compose", "to"}
           \/ field_type' = "body" /\ findCalls = {"compose", "to", "subject"}

\* A step of _fill_email_fields_enhanced behind a find_email_field or a
\* _fill_field_with_retry call: a field found is handed to the fill helper;
\* a field not found or not filled is left, and the field after it is
\* resolved next.
FieldStep ==
    /\ (pc = "gmail_after_find" /\ findResult.status = "found") =>
          /\ pc' = "fill"
          /\ selector' = findResult.selector
          /\ setbacks' = setbacks
    /\ (/\ pc \in {"gmail_after_find", "gmail_after_fill"}
        /\ setbacks' # setbacks) =>
          /\ setbacks' = setbacks \cup {field_type}
          /\ IF FieldAfter(field_type) = "end"
             THEN sessResult' = "True"
             ELSE pc' = "find_email_field" /\ field_type' = FieldAfter(field_type)

\* C31: _fill_email_fields_enhanced resolves the recipient, the subject and
\* the body in this order and hands each field found to the fill helper; a
\* field that was not found, or whose fill returned False, does not end the
\* message: every field after it is still resolved, and a session that has
\* come to the fields and returns True has resolved all three.
C31_SetbackDoesNotStop ==
    /\ [](entry = "session" =>
            /\ setbacks \subseteq (MessageFields \cap findCalls)
            /\ (pc = "done" /\ sessResult = "True" /\ "to" \in findCalls) =>
                  MessageFields \subseteq findCalls)
    /\ [][FieldResolveStep]_vars
    /\ [][FieldStep]_vars

\* C31 witness: the recipient and the subject were each not found or not
\* filled, and the body, found, is being written.
C31_Witness ==
    /\ entry = "session"
    /\ pc = "fill_method"
    /\ field_type = "body"
    /\ setbacks = {"to", "subject"}

\* ------------------------------------------------------------------ C34
\* The providers execute_instruction has selected, once it has selected.
Selected == apc \in {"provider_loop", "send_email", "http_exception"} \/ execResult # "pending"

\* C34: a registered provider name selects that provider alone; 'both', None
\* and every other value select both, Gmail before Outlook; the providers run
\* in the selected order, one send_email starting only when every earlier one
\* has returned, and all of them have run when execute_instruction returns.
C34_ProviderSelection ==
    /\ Selected =>
         selected_providers = IF request.provider \in {"gmail", "outlook"}
                              THEN <<request.provider>>
                              ELSE <<"gmail", "outlook">>
    /\ Len(ran) <= Len(selected_providers)
    /\ \A i \in DOMAIN ran : i <= Len(selected_providers) => ran[i][1] = selected_providers[i]
    /\ apc = "send_email" => Len(ran) = pidx - 1
    /\ execResult # "pending" => Len(ran) = Len(selected_providers)

C34_Witness ==
    /\ request.provider = "yahoo"
    /\ execResult # "pending"
    /\ Len(ran) = 2
    /\ ran[1][1] = "gmail"
    /\ ran[2][1] = "outlook"

\* ------------------------------------------------------------------ C35
\* C35: execute_instruction returns True only if send_email of every
\* selected provider returned True, and False whenever one of them reported
\* a failure.
C35_TrueOnlyIfAllSent ==
    /\ execResult = "True" => \A i \in DOMAIN ran : ran[i][2] = "True"
    /\ (execResult # "pending" /\ \E i \in DOMAIN ran : ran[i][2] = "False")
          => execResult = "False"

\* ------------------------------------------------------------------ C33
\* C33: when execute_instruction does not finish within the timeout of a
\* synchronous request, the response to that request has status 408.
C33_TimeoutIs408 ==
    (timedOut /\ apc = "idle") => (response.n = request.n /\ response.status = 408)

\* ------------------------------------------------------------------ C38
\* C38: the logs of a /send-email response hold only lines logged while the
\* request it answers was served.
C38_LogsOfThisRequest ==
    \A i \in DOMAIN response.logs : response.logs[i][1] = response.n

\* ------------------------------------------------------------------ C39
\* _fill_field_with_retry of provider p from attempt made + 1 on, on the
\* answers of the page: what it returns, the attempts it has made and the
\* write methods it has called.
RECURSIVE FillRun(_, _, _, _)
FillRun(p, answers, made, limit) ==
    IF ~MoreAttempts(made, limit) \/ made >= Len(answers)
    THEN [result |-> "False", attempts |-> made, writes |-> <<>>]
    ELSE LET a == answers[made + 1]
             rest == FillRun(p, answers, made + 1, limit)
         IN  IF ElementUsable(a.probe)
             THEN IF a.verified # 0
                  THEN [result |-> "True", attempts |-> made + 1,
                        writes |-> SubSeq(Methods, 1, a.verified)]
                  ELSE IF GivesUpAfterMethods(p)
                  THEN [result |-> "False", attempts |-> made + 1, writes |-> Methods]
                  ELSE [rest EXCEPT !.writes = Methods \o @]
             ELSE IF a.probe \in {"timeout", "fault"}
                     /\ BackoffDue(made + 1, limit) /\ ~a.waited
             THEN [result |-> "raised", attempts |-> made + 1, writes |-> <<>>]
             ELSE rest

\* The fill helper, called on its own, has returned or raised.
FillReturned == entry = "fill" /\ pc = "done"

\* What the call that has returned did.
FillDid == [result |-> retryResult, attempts |-> attempt, writes |-> tried]

\* FillRun follows the helper of either provider on the answers it was given.
FillRunFollows == FillReturned => FillRun(provider, surface, 0, max_retries) = FillDid

\* C39: on the same answers of the page the helpers of Gmail and Outlook
\* make the same number of attempts, call the same write methods and return
\* the same boolean: what the Gmail helper did on the answers it was given is
\* what the Outlook helper does on them.
C39_SameOnSameAnswers ==
    (FillReturned /\ provider = "gmail") =>
        FillRun("outlook", surface, 0, max_retries) = FillDid

====
